---- MODULE Spec2Model ----
(***************************************************************************)
(* Call interception and span annotation in the requests, dbapi, aiopg and *)
(* Flask instrumentations.                                                 *)
(*                                                                         *)
(* A thread runs one top-level call at a time; the call is a stack of      *)
(* frames (wrapper, original callable, traced execution, query method).    *)
(* The tracer is the sequence `spans` of the spans started so far.         *)
(***************************************************************************)
EXTENDS Naturals, Sequences, FiniteSets, TLC

\* ------------------------------------------------------------------ bounds
MaxStmtLen == 2
PoolSize == 2
MaxRequests == 2

\* ------------------------------------------------------------------ values
AllThreads == {1, 2}

None == [kind |-> "none", val |-> ""]
Return(v) == [kind |-> "return", val |-> v]
Raise(e) == [kind |-> "raise", val |-> e]

\* What the wrapped library call can do: answer or raise.  A fault value
\* stands for one exception instance.
Responses == {"resp200", "resp500"}
Faults == {"ConnectionError", "HTTPError", "KeyboardInterrupt"}
HttpOutcomes == {Return(r) : r \in Responses} \cup {Raise(f) : f \in Faults}

\* `except Exception` catches every fault but the BaseException-only ones.
IsException(f) == f # "KeyboardInterrupt"
\* getattr(exc, "response", None): only HTTPError carries a Response.
ResponseOfFault(f) == IF f = "HTTPError" THEN "resp500" ELSE "no_response"
IsResponse(v) == v \in Responses
StatusCodeOf(r) == IF r = "resp200" THEN "200" ELSE "500"
\* opentelemetry.instrumentation.utils.http_status_to_status_code
HttpStatusToStatusCode(code) == IF code = "200" THEN "UNSET" ELSE "ERROR"

Methods == {"get", "POST"}
Urls == {"http://a/"}
Upper(m) == IF m = "get" THEN "GET" ELSE m

\* The configuration one _instrument call closes over.
NameCallbacks == {"none", "named", "empty", "raises"}
SpanCallbacks == {"none", "ok", "raises"}
Config(n, s) == [name_callback |-> n, span_callback |-> s]
Configs == {Config("none", "none"), Config("named", "ok"), Config("empty", "ok"),
            Config("raises", "ok"), Config("none", "raises"), Config("named", "raises")}

NoArgs == [method |-> "", url |-> "", headers |-> "absent", pos |-> <<>>]
HttpArgs(m, u, h) == [method |-> m, url |-> u, headers |-> h, pos |-> <<>>]
NoToken == [held |-> FALSE, prev |-> FALSE]

VARIABLES
    threads,            \* the threads of the scenario
    stack,              \* stack[t]: the frames of t's running call, innermost first
    result,             \* result[t]: what t's last top-level call gave its caller
    obs,                \* obs[t]: what happened during t's current / last call
    ctx,                \* ctx[t]: the context values of t's call chain
    spans,              \* spans[t]: the spans started during t's current / last call
    sessionRequest,     \* Session.request: the wrappers around the original, outermost first
    sessionSend,        \* Session.send: likewise
    requestsInstrumented,   \* RequestsInstrumentor's "is instrumented" flag
    session,            \* one Session object: its own request / send attributes
    lastOp,             \* the outcome of the latest instrument / uninstrument operation
    dbi,                \* the DatabaseApiIntegration shared by the traced connection's cursors
    connection,         \* the DB connection object the application holds
    app,                \* the Flask app: its wsgi_app, hooks and instrumentation attributes
    req,                \* the request the Flask app is handling
    flaskSpans,         \* the spans started by the Flask hooks, oldest first
    handled,            \* the requests the Flask app has answered, oldest first
    flaskClass,         \* flask.Flask as FlaskInstrumentor().instrument() leaves it
    fastapi,            \* fastapi.FastAPI, one FastAPI app and its last request
    cm,                 \* the `with` / `async with` block over a connection or cursor
    pool                \* the aiopg connection pool and what it has handed out

callVars == <<stack, result, obs, ctx, spans>>
httpVars == <<sessionRequest, sessionSend, requestsInstrumented, session>>
dbVars == <<dbi, connection>>
flaskVars == <<app, req, flaskSpans, handled, flaskClass, fastapi>>
classVars == <<flaskClass, fastapi>>
proxyVars == <<cm, pool>>
clientVars == <<threads, stack, result, obs, ctx, spans, sessionRequest, sessionSend,
                requestsInstrumented, session, dbi, connection, cm, pool>>
vars == <<threads, stack, result, obs, ctx, spans, sessionRequest, sessionSend,
          requestsInstrumented, session, lastOp,
          dbi, connection, app, req, flaskSpans, handled, flaskClass, fastapi,
          cm, pool>>

\* ------------------------------------------------------------------ tracer
\* Tracer.start_span: a new span record; the sampler decides `recording`.
NewSpan(name, kind, recording, t) ==
    [name |-> name, kind |-> kind, recording |-> recording, attrs |-> {},
     status |-> "UNSET", ended |-> 0, thread |-> t, setCalls |-> 0, strCalls |-> 0]

\* Span.set_attribute as the instrumentation calls it.
SetAttribute(s, key, value) ==
    [s EXCEPT !.attrs = {a \in @ : a[1] # key} \cup {<<key, value>>},
              !.setCalls = @ + 1]

\* Span.set_status.
SetStatus(s, st) == [s EXCEPT !.status = st, !.setCalls = @ + 1]

\* Mutant: the span is ended only when the block is left by a return.
ExitSpan_OnlyOnReturn(s, out) ==
    IF out.kind = "return" THEN [s EXCEPT !.ended = @ + 1] ELSE s

\* Leaving `with ... start_as_current_span(...)`: the span is ended on every
\* way out; an exception passing through is recorded as an ERROR status.
ExitSpan(s, out) ==
    [s EXCEPT !.ended = @ + 1,
              !.status = IF out.kind = "raise" /\ s.recording THEN "ERROR" ELSE @]

AttrOf(s, key) ==
    IF \E a \in s.attrs : a[1] = key
    THEN (CHOOSE a \in s.attrs : a[1] = key)[2]
    ELSE "absent"

\* ------------------------------------------------------------------ frames
Frame(kind, fn, chain, args) ==
    [kind |-> kind, fn |-> fn, chain |-> chain, phase |-> "enter", args |-> args,
     active |-> FALSE, span |-> 0, token |-> NoToken, pending |-> None]

\* The frame of a call of Session.<fn> as bound to `chain`.
CallableFrame(fn, chain, args) ==
    Frame(IF chain # <<>> THEN "wrapper"
          ELSE IF fn = "request" THEN "orig_request" ELSE "orig_send",
          fn, chain, args)

\* The callee's outcome reaches the frame below it, which resumes.
DeliverTo(stk, out) ==
    IF stk = <<>> THEN <<>>
    ELSE <<[Head(stk) EXCEPT !.pending = out, !.phase = "ret"]>> \o Tail(stk)

\* The top frame of t finishes with `out`.
PopWith(t, out) ==
    /\ stack' = [stack EXCEPT ![t] = DeliverTo(Tail(@), out)]
    /\ result' = IF Tail(stack[t]) = <<>> THEN [result EXCEPT ![t] = out] ELSE result

\* The top frame of t calls `callee` and waits for it.
CallFrom(t, caller, callee) ==
    stack' = [stack EXCEPT ![t] = <<callee, [caller EXCEPT !.phase = "wait"]>> \o Tail(@)]

\* A thread of the scenario that is between two calls.
Idle(t) == t \in threads /\ stack[t] = <<>> /\ result[t] = None

NoObs ==
    [fn |-> "", args |-> NoArgs, flavor |-> "", started |-> 0, spanIds |-> {},
     invoked |-> <<>>, delegated |-> None, suppressed |-> FALSE,
     callbackRaised |-> FALSE, self |-> "fresh", inBlock |-> FALSE]

\* ------------------------------------------------------------------ requests
\* get_default_span_name(method): "HTTP {}".format(method).strip()
HttpDefaultSpanName(method) == IF method = "" THEN "HTTP" ELSE "HTTP " \o method

\* What name_callback(method, url) gives back.
NameCallbackResult(cb) == IF cb = "named" THEN "custom" ELSE ""

\* The span name chosen by _instrumented_requests_call.
HttpSpanName(cfg, method) ==
    LET fromCb == IF cfg.name_callback = "none" THEN ""
                  ELSE NameCallbackResult(cfg.name_callback)
    IN IF fromCb = "" THEN HttpDefaultSpanName(method) ELSE fromCb

\* Mutant: the guard forgets the HTTP suppression key.
SuppressedHere_IgnoresHttpKey(c) == c.suppress_instrumentation

\* The guard at the top of _instrumented_requests_call.
SuppressedHere(c) == c.suppress_instrumentation \/ c.suppress_http

\* get_or_create_headers() followed by inject(headers).
InjectHeaders(h) == IF h \in {"absent", "created_injected"} THEN "created_injected"
                    ELSE "given_injected"

\* Mutant: the fault is replaced by a new exception.
ReraisedFault_NewInstance(exc) == "RequestException"

\* raise exception.with_traceback(exception.__traceback__): the caught instance.
ReraisedFault(exc) == exc

\* The span populated before the delegated call.
HttpSpanOpened(name, method, url, recording, t) ==
    LET s0 == NewSpan(name, "CLIENT", recording, t)
    IN IF recording
       THEN SetAttribute(SetAttribute(s0, "http.method", method), "http.url", url)
       ELSE s0

\* The span after the delegated call gave `res` (a Response or not).
HttpSpanAnswered(s, res) ==
    IF IsResponse(res) /\ s.recording
    THEN SetStatus(SetAttribute(s, "http.status_code", StatusCodeOf(res)),
                   HttpStatusToStatusCode(StatusCodeOf(res)))
    ELSE s

\* The class attribute Session.<fn>.
ClassBinding(fn) == IF fn = "request" THEN sessionRequest ELSE sessionSend

\* An instance attribute of a Session object: absent, or a callable of its own.
NoOwnAttr == [own |-> FALSE, chain |-> <<>>]
NewSessionObject == [request |-> NoOwnAttr, send |-> NoOwnAttr]

\* getattr(self, fn): the instance's own attribute, else the class attribute.
\* `self` is the kept Session object ("session") or one made for the call ("fresh").
BoundFor(self, fn) ==
    IF self = "session" /\ session[fn].own THEN session[fn].chain
    ELSE ClassBinding(fn)

\* A caller invokes self.request or self.send as bound right now; its
\* context carries suppress_instrumentation or not.
HttpCall(t, self, fn, m, u, h, suppress) ==
    /\ Idle(t)
    /\ LET chain == BoundFor(self, fn)
           args == HttpArgs(m, u, h)
       IN /\ stack' = [stack EXCEPT ![t] = <<CallableFrame(fn, chain, args)>>]
          /\ UNCHANGED spans
          /\ obs' = [obs EXCEPT ![t] = [NoObs EXCEPT !.fn = fn, !.args = args,
                                         !.flavor = "http", !.self = self,
                                         !.suppressed = suppress]]
    /\ ctx' = [ctx EXCEPT ![t].suppress_instrumentation = suppress]
    /\ UNCHANGED <<threads, result, httpVars, lastOp, dbVars, flaskVars, proxyVars>>

\* Mutant: one context for the whole process, that of thread 1.
ChainContext_Shared(t) == ctx[1]

\* context.get_value reads the current context of the calling thread or task.
ChainContext(t) == ctx[t]

\* instrumented_request / instrumented_send up to the delegated call.
WrapperEnter(t) ==
    /\ t \in threads
    /\ stack[t] # <<>>
    /\ LET f == Head(stack[t])
           cfg == Head(f.chain)
           method == Upper(f.args.method)
           callee(a) == CallableFrame(f.fn, Tail(f.chain), a)
       IN /\ f.kind = "wrapper"
          /\ f.phase = "enter"
          /\ IF SuppressedHere(ChainContext(t))
             THEN /\ CallFrom(t, f, callee(f.args))
                  /\ UNCHANGED <<result, obs, ctx, spans>>
             ELSE IF cfg.name_callback = "raises"
             THEN /\ PopWith(t, Raise("NameCallbackError"))
                  /\ obs' = [obs EXCEPT ![t].callbackRaised = TRUE]
                  /\ UNCHANGED <<ctx, spans>>
             ELSE \E recording \in BOOLEAN :
                  LET sp == HttpSpanOpened(HttpSpanName(cfg, method), method,
                                            f.args.url, recording, t)
                      id == Len(spans[t]) + 1
                      args == [f.args EXCEPT !.headers = InjectHeaders(@)]
                  IN /\ spans' = [spans EXCEPT ![t] = Append(@, sp)]
                     /\ ctx' = [ctx EXCEPT ![t].suppress_http = TRUE]
                     /\ CallFrom(t, [f EXCEPT !.active = TRUE, !.span = id,
                                              !.token = [held |-> TRUE,
                                                         prev |-> ctx[t].suppress_http]],
                                 callee(args))
                     /\ obs' = [obs EXCEPT ![t].started = @ + 1,
                                           ![t].spanIds = @ \cup {id}]
                     /\ UNCHANGED result
    /\ UNCHANGED <<threads, httpVars, lastOp, dbVars, flaskVars, proxyVars>>

\* What an active wrapper hands its caller once the delegated call is over.
WrapperOutcome(cfg, pending) ==
    IF pending.kind = "raise" /\ ~IsException(pending.val) THEN pending
    ELSE IF cfg.span_callback = "raises" THEN Raise("SpanCallbackError")
    ELSE IF pending.kind = "raise" THEN Raise(ReraisedFault(pending.val))
    ELSE pending

\* instrumented_request / instrumented_send after the delegated call.
WrapperReturn(t) ==
    /\ t \in threads
    /\ stack[t] # <<>>
    /\ LET f == Head(stack[t])
           cfg == Head(f.chain)
           p == f.pending
           res == IF p.kind = "raise" THEN ResponseOfFault(p.val) ELSE p.val
           out == WrapperOutcome(cfg, p)
       IN /\ f.kind = "wrapper"
          /\ f.phase = "ret"
          /\ IF ~f.active
             THEN /\ PopWith(t, p)
                  /\ UNCHANGED <<obs, ctx, spans>>
             ELSE /\ ctx' = [ctx EXCEPT ![t].suppress_http = f.token.prev]
                  /\ obs' = [obs EXCEPT ![t].callbackRaised =
                                @ \/ ( /\ cfg.span_callback = "raises"
                                       /\ ~(p.kind = "raise" /\ ~IsException(p.val)) )]
                  /\ spans' = [spans EXCEPT ![t][f.span] =
                                  ExitSpan(IF p.kind = "raise" /\ ~IsException(p.val)
                                           THEN @ ELSE HttpSpanAnswered(@, res), out)]
                  /\ PopWith(t, out)
    /\ UNCHANGED <<threads, httpVars, lastOp, dbVars, flaskVars, proxyVars>>

\* The library's Session.request: prepares the request and calls self.send.
OrigRequestEnter(t) ==
    /\ t \in threads
    /\ stack[t] # <<>>
    /\ LET f == Head(stack[t])
       IN /\ f.kind = "orig_request"
          /\ f.phase = "enter"
          /\ CallFrom(t, f, CallableFrame("send", BoundFor(obs[t].self, "send"),
                                          [f.args EXCEPT !.method = Upper(@)]))
          /\ obs' = [obs EXCEPT ![t].invoked =
                        Append(@, [fn |-> "request", args |-> f.args])]
    /\ UNCHANGED <<threads, result, ctx, spans, httpVars, lastOp, dbVars, flaskVars, proxyVars>>

\* The library's Session.request gives back what self.send gave.
OrigRequestReturn(t) ==
    /\ t \in threads
    /\ stack[t] # <<>>
    /\ LET f == Head(stack[t])
       IN /\ f.kind = "orig_request"
          /\ f.phase = "ret"
          /\ PopWith(t, f.pending)
    /\ UNCHANGED <<threads, obs, ctx, spans, httpVars, lastOp, dbVars, flaskVars, proxyVars>>

\* The library's Session.send: a response or a fault.
OrigSend(t, out) ==
    /\ t \in threads
    /\ stack[t] # <<>>
    /\ LET f == Head(stack[t])
       IN /\ f.kind = "orig_send"
          /\ f.phase = "enter"
          /\ PopWith(t, out)
          /\ obs' = [obs EXCEPT ![t].invoked =
                        Append(@, [fn |-> "send", args |-> f.args]),
                                ![t].delegated = out]
    /\ UNCHANGED <<threads, ctx, spans, httpVars, lastOp, dbVars, flaskVars, proxyVars>>

\* _instrument: Session.<fn> becomes a marked wrapper around the current one.
InstrumentBinding(cfg, binding) == <<cfg>> \o binding

\* Mutant: the marked wrapper is left in place.
UninstrumentFrom_KeepsWrapper(binding) == binding

\* _uninstrument_from, per function: a marked callable gives way to __wrapped__.
UninstrumentFrom(binding) == IF binding # <<>> THEN Tail(binding) ELSE binding

\* BaseInstrumentor.instrument: a second call in a row is a logged no-op.
InstrumentorShouldInstrument(flag) == ~flag

\* BaseInstrumentor.uninstrument: without a preceding instrument, a logged no-op.
InstrumentorShouldUninstrument(flag) == flag

\* RequestsInstrumentor().instrument(**kwargs), by a thread between two calls.
Instrument(t, cfg) ==
    /\ Idle(t)
    /\ IF InstrumentorShouldInstrument(requestsInstrumented)
       THEN /\ sessionRequest' = InstrumentBinding(cfg, sessionRequest)
            /\ sessionSend' = InstrumentBinding(cfg, sessionSend)
            /\ requestsInstrumented' = TRUE
            /\ UNCHANGED session
            /\ lastOp' = [op |-> "instrument", warned |-> FALSE]
       ELSE /\ lastOp' = [op |-> "instrument", warned |-> TRUE]
            /\ UNCHANGED httpVars
    /\ UNCHANGED <<threads, callVars, dbVars, flaskVars, proxyVars>>

\* RequestsInstrumentor().uninstrument(), by a thread between two calls.
Uninstrument(t) ==
    /\ Idle(t)
    /\ IF InstrumentorShouldUninstrument(requestsInstrumented)
       THEN /\ sessionRequest' = UninstrumentFrom(sessionRequest)
            /\ sessionSend' = UninstrumentFrom(sessionSend)
            /\ requestsInstrumented' = FALSE
            /\ UNCHANGED session
            /\ lastOp' = [op |-> "uninstrument", warned |-> FALSE]
       ELSE /\ lastOp' = [op |-> "uninstrument", warned |-> TRUE]
            /\ UNCHANGED httpVars
    /\ UNCHANGED <<threads, callVars, dbVars, flaskVars, proxyVars>>

\* Mutant: the instance attribute is set whether or not the marker is there.
UninstrumentFromInstance_Always(attr, cur) ==
    [own |-> TRUE, chain |-> UninstrumentFrom(cur)]

\* _uninstrument_from(session, restore_as_bound_func=True), per function: a
\* marked callable gives way to __wrapped__, bound and set on the instance.
UninstrumentFromInstance(attr, cur) ==
    IF cur = <<>> THEN attr ELSE [own |-> TRUE, chain |-> UninstrumentFrom(cur)]

\* RequestsInstrumentor.uninstrument_session(session)
UninstrumentSession(t) ==
    /\ Idle(t)
    /\ session' = [fn \in {"request", "send"} |->
                      UninstrumentFromInstance(session[fn], BoundFor("session", fn))]
    /\ lastOp' = [op |-> "uninstrument_session", warned |-> FALSE]
    /\ UNCHANGED <<threads, callVars, sessionRequest, sessionSend,
                   requestsInstrumented, dbVars, flaskVars, proxyVars>>

\* session = Session(): the kept Session object is a new one.
NewSession(t) ==
    /\ Idle(t)
    /\ session # NewSessionObject
    /\ session' = NewSessionObject
    /\ UNCHANGED <<threads, callVars, sessionRequest, sessionSend,
                   requestsInstrumented, lastOp, dbVars, flaskVars, proxyVars>>

\* The caller takes the call's outcome and goes on; the exporter is read and cleared.
CallerContinues(t) ==
    /\ t \in threads
    /\ stack[t] = <<>>
    /\ result[t] # None
    /\ result' = [result EXCEPT ![t] = None]
    /\ obs' = [obs EXCEPT ![t] = NoObs]
    /\ spans' = [spans EXCEPT ![t] = <<>>]
    /\ ctx' = [ctx EXCEPT ![t].suppress_instrumentation = FALSE]
    /\ UNCHANGED <<threads, stack, httpVars, lastOp, dbVars, flaskVars, proxyVars>>

\* ------------------------------------------------------------------ dbapi / aiopg
\* Text is a sequence of characters; " " is whitespace.
StmtChars == {" ", "S"}
RECURSIVE SeqsUpTo(_, _)
SeqsUpTo(S, n) ==
    IF n = 0 THEN {<<>>}
    ELSE LET shorter == SeqsUpTo(S, n - 1)
         IN shorter \cup {Append(q, c) : q \in {x \in shorter : Len(x) = n - 1}, c \in S}

RECURSIVE Str(_)
Str(chars) == IF chars = <<>> THEN "" ELSE Head(chars) \o Str(Tail(chars))

RECURSIVE SkipSpaces(_)
SkipSpaces(chars) ==
    IF chars # <<>> /\ Head(chars) = " " THEN SkipSpaces(Tail(chars)) ELSE chars

RECURSIVE TakeToken(_)
TakeToken(chars) ==
    IF chars = <<>> \/ Head(chars) = " " THEN <<>>
    ELSE <<Head(chars)>> \o TakeToken(Tail(chars))

\* str.split(): the maximal runs of non-whitespace characters.
RECURSIVE Split(_)
Split(chars) ==
    LET rest == SkipSpaces(chars)
        tok == TakeToken(rest)
    IN IF rest = <<>> THEN <<>>
       ELSE <<tok>> \o Split(SubSeq(rest, Len(tok) + 1, Len(rest)))

\* bytes.decode("utf8", "replace"): an invalid byte becomes U+FFFD.
DecodeReplace(bytes) ==
    [i \in 1..Len(bytes) |-> IF bytes[i] = "xFF" THEN "U+FFFD" ELSE bytes[i]]

StrArg(chars) == [type |-> "str", text |-> chars]
BytesArg(bytes) == [type |-> "bytes", text |-> bytes]
ParamsArg == [type |-> "params", text |-> <<"(", "1", ")">>]

Statements == {StrArg(c) : c \in SeqsUpTo(StmtChars, MaxStmtLen)}
                 \cup {StrArg(<<"SELECT", " ", "1">>)}
                 \cup {BytesArg(<<"S">>), BytesArg(<<"S", "xFF">>)}
\* The positional arguments of an execute / executemany / callproc call.
DbArgLists == {<<>>} \cup {<<st>> : st \in Statements}
                 \cup {<<StrArg(<<"S">>), ParamsArg>>, <<BytesArg(<<"S">>), ParamsArg>>}

DbMethods == {"execute", "executemany", "callproc"}
DbOutcomes == {Return("rows"), Raise("ProgrammingError"), Raise("CancelledError")}
DbArgs(pos) == [NoArgs EXCEPT !.pos = pos]

\* CursorTracer.get_operation_name: [0] of an empty split raises IndexError.
GetOperationName(pos) ==
    IF pos # <<>> /\ pos[1].type = "str"
    THEN LET toks == Split(pos[1].text)
         IN IF toks = <<>> THEN Raise("IndexError") ELSE Return(Str(toks[1]))
    ELSE Return("")

\* Mutant: a bytes statement is taken as it is.
GetStatement_NoDecode(pos) == IF pos = <<>> THEN "" ELSE Str(pos[1].text)

\* CursorTracer.get_statement
GetStatement(pos) ==
    IF pos = <<>> THEN ""
    ELSE IF pos[1].type = "bytes" THEN Str(DecodeReplace(pos[1].text))
    ELSE Str(pos[1].text)

\* str(args[1]): the parameters are turned into text for the span `s`.
StrOfParams(s) == [s EXCEPT !.strCalls = @ + 1]

\* Mutant: the parameters are captured whatever the integration says.
CapturesParameters_Always(integration, pos) == Len(pos) > 1

\* `if self._db_api_integration.capture_parameters and len(args) > 1`
CapturesParameters(integration, pos) ==
    integration.capture_parameters /\ Len(pos) > 1

\* `for attribute_key, attribute_value in span_attributes.items(): set_attribute`
RECURSIVE SetAttributes(_, _)
SetAttributes(s, pairs) ==
    IF pairs = {} THEN s
    ELSE LET p == CHOOSE q \in pairs : TRUE
         IN SetAttributes(SetAttribute(s, p[1], p[2]), pairs \ {p})

\* _populate_span from `statement = ...` on: what a recording span is given.
PopulateRecordingSpan(s, integration, pos) ==
    LET s1 == SetAttribute(s, "db.system", integration.database_system)
        s2 == SetAttribute(s1, "db.name", integration.database)
        s3 == SetAttribute(s2, "db.statement", GetStatement(pos))
        s4 == SetAttributes(s3, integration.span_attributes)
    IN IF CapturesParameters(integration, pos)
       THEN SetAttribute(StrOfParams(s4), "db.statement.parameters",
                         Str(pos[2].text))
       ELSE s4

\* Mutant: _populate_span without the is_recording() check.
PopulateSpan_Unguarded(s, integration, pos) ==
    PopulateRecordingSpan(s, integration, pos)

\* CursorTracer._populate_span
PopulateSpan(s, integration, pos) ==
    IF ~s.recording THEN s ELSE PopulateRecordingSpan(s, integration, pos)

\* Mutant: the fallback is the library name even when a database name is known.
FallbackName_LibraryName(integration) == integration.name

\* The name traced_execution falls back to when the statement gives none.
FallbackName(integration) ==
    IF integration.database # "" THEN integration.database ELSE integration.name

\* The values a connection object's attributes hold.
PyNone == [type |-> "none", val |-> "", attrs |-> {}]
StrVal(x) == [type |-> "str", val |-> x, attrs |-> {}]
IntVal(x) == [type |-> "int", val |-> x, attrs |-> {}]
\* bytes; "xFF" marks content that is no valid UTF-8.
BytesVal(x) == [type |-> "bytes", val |-> x, attrs |-> {}]
Obj(attrs) == [type |-> "obj", val |-> "", attrs |-> attrs]

\* getattr(v, name, None)
GetAttr(v, name) ==
    IF \E a \in v.attrs : a[1] = name
    THEN (CHOOSE a \in v.attrs : a[1] = name)[2]
    ELSE PyNone

\* value.split("."): a dotted path is a sequence of names and "." separators.
SplitDots(path) == SelectSeq(path, LAMBDA x : x # ".")

\* functools.reduce(lambda a, name: getattr(a, name, None), names, connection)
RECURSIVE ReduceGetAttr(_, _)
ReduceGetAttr(v, names) ==
    IF names = <<>> THEN v ELSE ReduceGetAttr(GetAttr(v, Head(names)), Tail(names))

\* bool(v)
Truthy(v) ==
    CASE v.type = "none" -> FALSE
      [] v.type = "int" -> v.val # "0"
      [] v.type \in {"str", "bytes"} -> v.val # ""
      [] OTHER -> TRUE

\* The connection_attributes a DatabaseApiIntegration has by default, and the
\* nested ones an instrumentor may pass.
DefaultAttributes ==
    [database |-> <<"database">>, port |-> <<"port">>, host |-> <<"host">>,
     user |-> <<"user">>]
InfoAttributes ==
    [database |-> <<"info", ".", "dbname">>, port |-> <<"info", ".", "port">>,
     host |-> <<"info", ".", "host">>, user |-> <<"info", ".", "user">>]
AttributeKeys == {"database", "port", "host", "user"}

\* dict.get(key): connection_props is a set of <<key, value>> pairs.
PropOf(props, key) ==
    IF \E q \in props : q[1] = key
    THEN (CHOOSE q \in props : q[1] = key)[2]
    ELSE PyNone

\* The text a span attribute shows for a value.
TextOf(v) == IF v.type = "bytes" THEN "b'" \o v.val \o "'" ELSE v.val

\* DatabaseApiIntegration.__init__
InitIntegration(connection_attributes, capture) ==
    [connected |-> FALSE, database_system |-> "postgresql", database |-> "",
     name |-> "", capture_parameters |-> capture,
     connection_attributes |-> connection_attributes,
     connection_props |-> {}, span_attributes |-> {}]

\* The loop of get_connection_attributes: the truthy attributes found.
ExtractedProps(integration, c) ==
    {q \in {<<k, ReduceGetAttr(c, SplitDots(integration.connection_attributes[k]))>> :
                k \in AttributeKeys} : Truthy(q[2])}

\* DatabaseApiIntegration.get_connection_attributes: the integration as the
\* call leaves it, and the exception it raises ("" when it returns).
GetConnectionAttributes(integration, c) ==
    LET props == ExtractedProps(integration, c)
                    \cup {q \in integration.connection_props :
                             ~\E r \in ExtractedProps(integration, c) : r[1] = q[1]}
        db == PropOf(props, "database")
        user == PropOf(props, "user")
        host == PropOf(props, "host")
        port == PropOf(props, "port")
        i1 == [integration EXCEPT !.connection_props = props,
                                  !.name = integration.database_system]
        \* bytes.decode(errors="ignore") drops what is no valid UTF-8
        dbText == IF db.type = "bytes" THEN (IF db.val = "xFF" THEN "" ELSE db.val)
                  ELSE db.val
        i2 == IF db.type = "none" THEN [i1 EXCEPT !.database = ""]
              ELSE [i1 EXCEPT !.database = dbText, !.name = @ \o "." \o dbText]
        userAttr == IF user.type = "none" THEN {}
                    ELSE {<<"db.user", user.val>>}
        hostAttr == IF host.type = "none" THEN {} ELSE {<<"net.peer.name", TextOf(host)>>}
        portAttr == IF port.type = "none" THEN {} ELSE {<<"net.peer.port", TextOf(port)>>}
        Merge(old, new) == {a \in old : ~\E b \in new : b[1] = a[1]} \cup new
    IN IF db.type \in {"int", "obj"}
       THEN [raised |-> "TypeError", integration |-> [i1 EXCEPT !.database = db.val]]
       ELSE IF user.type = "bytes" /\ user.val = "xFF"
       THEN [raised |-> "UnicodeDecodeError", integration |-> i2]
       ELSE [raised |-> "",
             integration |-> [i2 EXCEPT !.span_attributes =
                                 Merge(Merge(Merge(@, userAttr), hostAttr), portAttr)]]

\* The library's connection object with a `database` attribute and no other.
ConnectionObject(database) == Obj({<<"database", StrVal(database)>>})

\* DatabaseApiIntegration.__init__ then get_connection_attributes(connection).
NewIntegration(database, capture) ==
    [GetConnectionAttributes(InitIntegration(DefaultAttributes, capture),
                             ConnectionObject(database)).integration
        EXCEPT !.connected = TRUE]

NoIntegration ==
    [connected |-> FALSE, database_system |-> "", database |-> "", name |-> "",
     capture_parameters |-> FALSE, connection_attributes |-> DefaultAttributes,
     connection_props |-> {}, span_attributes |-> {}]

\* The connection objects: the library's own, and the proxy around one.
NoConnection == [kind |-> "none", database |-> "", wrapped |-> <<>>]
RawConnection(database) ==
    [kind |-> "original", database |-> database, wrapped |-> <<>>]

\* get_traced_connection_proxy: an ObjectProxy around `c`; attributes read through.
TracedConnectionProxy(c) ==
    [kind |-> "proxy", database |-> c.database, wrapped |-> <<c>>]

\* Mutant: uninstrument_connection hands the proxy back.
UninstrumentedConnection_KeepsProxy(c) == c

\* uninstrument_connection: __wrapped__ of a proxy, anything else as it is.
UninstrumentedConnection(c) == IF c.kind = "proxy" THEN c.wrapped[1] ELSE c

\* wrap_connect_: the instrumented connect() makes the library's connection and
\* returns a traced proxy over a new integration.
Connect(t, database, capture) ==
    /\ Idle(t)
    /\ LET c == RawConnection(database)
       IN /\ dbi' = NewIntegration(c.database, capture)
          /\ connection' = TracedConnectionProxy(c)
    /\ lastOp' = [op |-> "connect", warned |-> FALSE]
    /\ UNCHANGED <<threads, callVars, httpVars, flaskVars, proxyVars>>

\* The connection objects connect() may give: attributes on the object itself
\* or under `info`, any of them missing.
DatabaseValues == {PyNone, StrVal("testdb"), BytesVal("testdb"), IntVal("5")}
UserValues == {PyNone, StrVal("user"), BytesVal("user"), BytesVal("xFF")}
HostValues == {PyNone, StrVal("host")}
PortValues == {PyNone, IntVal("5432"), IntVal("0")}
WithAttrs(database, user, host, port, names) ==
    Obj({q \in {<<names[1], database>>, <<names[2], user>>, <<names[3], host>>,
                <<names[4], port>>} : q[2] # PyNone})
FlatObjects ==
    {WithAttrs(d, u, h, pt, <<"database", "user", "host", "port">>) :
        d \in DatabaseValues, u \in UserValues, h \in HostValues, pt \in PortValues}
NestedObjects ==
    {Obj({}), Obj({<<"info", PyNone>>}), Obj({<<"info", StrVal("closed")>>})}
       \cup {Obj({<<"info", WithAttrs(d, u, PyNone, pt,
                                      <<"dbname", "user", "host", "port">>)>>}) :
                d \in {PyNone, StrVal("testdb")}, u \in {PyNone, StrVal("user")},
                pt \in {PyNone, IntVal("5432")}}

\* wrap_connect_ where connect() gives the object `c`: a traced proxy over a
\* new integration, or the exception get_connection_attributes raises.
ConnectObject(t, connection_attributes, c, capture) ==
    /\ Idle(t)
    /\ LET r == GetConnectionAttributes(InitIntegration(connection_attributes, capture),
                                        c)
       IN IF r.raised # ""
          THEN /\ lastOp' = [op |-> "connect_raised", warned |-> FALSE]
               /\ UNCHANGED dbVars
          ELSE /\ dbi' = [r.integration EXCEPT !.connected = TRUE]
               /\ connection' = TracedConnectionProxy(
                                    [kind |-> "original",
                                     database |-> r.integration.database,
                                     wrapped |-> <<>>, object |-> c])
               /\ lastOp' = [op |-> "connect", warned |-> FALSE]
    /\ UNCHANGED <<threads, callVars, httpVars, flaskVars, proxyVars>>

\* The library's connect() called where no patch point is instrumented.
RawConnect(t, database) ==
    /\ Idle(t)
    /\ connection' = RawConnection(database)
    /\ dbi' = NoIntegration
    /\ UNCHANGED <<threads, callVars, httpVars, lastOp, flaskVars, proxyVars>>

\* instrument_connection(name, connection, ...) on the library's connection.
InstrumentConnection(t, capture) ==
    /\ Idle(t)
    /\ connection.kind = "original"
    /\ dbi' = NewIntegration(connection.database, capture)
    /\ connection' = TracedConnectionProxy(connection)
    /\ lastOp' = [op |-> "instrument_connection", warned |-> FALSE]
    /\ UNCHANGED <<threads, callVars, httpVars, flaskVars, proxyVars>>

\* connection = uninstrument_connection(connection)
UninstrumentConnection(t) ==
    /\ Idle(t)
    /\ connection.kind # "none"
    /\ connection' = UninstrumentedConnection(connection)
    /\ dbi' = NoIntegration
    /\ lastOp' = [op |-> "uninstrument_connection",
                  warned |-> connection.kind # "proxy"]
    /\ UNCHANGED <<threads, callVars, httpVars, flaskVars, proxyVars>>

\* Mutant: the cursor proxy is built over an integration of its own.
CursorIntegration_Fresh(c, integration) == NewIntegration("", FALSE)

\* TracedConnectionProxy.cursor: the cursor proxy gets the connection's integration.
CursorIntegration(c, integration) == integration

\* connection.cursor().<fn>(*pos): through the cursor proxy (TracedCursorProxy,
\* or AsyncCursorTracerProxy when awaited) of a traced connection, or straight
\* to the library's cursor otherwise.
CursorCall(t, traced, integration, flavor, fn, pos, inBlock) ==
    /\ stack' = [stack EXCEPT ![t] =
                    <<[Frame(IF ~traced THEN "query_method"
                             ELSE IF flavor = "sync" THEN "traced_execution"
                             ELSE "async_traced_execution", fn, <<>>, DbArgs(pos))
                         EXCEPT !.chain = IF traced THEN <<integration>> ELSE <<>>]>>]
    /\ obs' = [obs EXCEPT ![t] = [NoObs EXCEPT !.fn = fn, !.args = DbArgs(pos),
                                                !.flavor = flavor,
                                                !.inBlock = inBlock]]
    /\ UNCHANGED <<threads, result, spans, ctx, httpVars, lastOp, dbVars, flaskVars,
                   proxyVars>>

DbCall(t, flavor, fn, pos) ==
    /\ Idle(t)
    /\ connection.kind # "none"
    /\ CursorCall(t, connection.kind = "proxy", CursorIntegration(connection, dbi),
                  flavor, fn, pos, FALSE)

\* The cursor objects: the library's own, and the proxy around one.
RawCursor == [kind |-> "original", integration |-> NoIntegration, wrapped |-> <<>>]

\* get_traced_cursor_proxy: an ObjectProxy with a CursorTracer over `integration`.
TracedCursorProxy(cursor, integration) ==
    [kind |-> "proxy", integration |-> integration, wrapped |-> <<cursor>>]

\* c.cursor(): a traced connection hands out a cursor proxy.
CursorOf(c, integration) ==
    IF c.kind = "proxy"
    THEN TracedCursorProxy(RawCursor, CursorIntegration(c, integration))
    ELSE RawCursor

NoBlock ==
    [open |-> FALSE, target |-> "", flavor |-> "", manager |-> NoConnection,
     bound |-> NoConnection, exitGiven |-> "", exitForwarded |-> ""]

\* __enter__ / __aenter__ of the library's own connection and cursor: itself.
UnderlyingEnter(obj) == obj

\* TracedConnectionProxy.__enter__ and TracedCursorProxy.__enter__:
\* `self.__wrapped__.__enter__(); return self`.
ProxyEnter(proxy) == proxy

\* AsyncProxyObject.__aenter__: `return await self.__wrapped__.__aenter__()`.
ProxyAenter(proxy) == UnderlyingEnter(proxy.wrapped[1])

\* __exit__(*args) and __aexit__(exc_type, exc_val, exc_tb) of a proxy: the
\* arguments the wrapped object's method is called with.
ProxyExitArgs(flavor, args) == args

\* `with m as bound:` (sync) or `async with m as bound:` where m is the
\* connection or a cursor of it.
EnterBlock(t, flavor, target) ==
    /\ Idle(t)
    /\ connection.kind # "none"
    /\ ~cm.open
    /\ LET m == IF target = "connection" THEN connection ELSE CursorOf(connection, dbi)
       IN cm' = [NoBlock EXCEPT !.open = TRUE, !.target = target, !.flavor = flavor,
                                !.manager = m,
                                !.bound = IF m.kind # "proxy" THEN UnderlyingEnter(m)
                                          ELSE IF flavor = "sync" THEN ProxyEnter(m)
                                          ELSE ProxyAenter(m)]
    /\ UNCHANGED <<threads, callVars, httpVars, lastOp, dbVars, flaskVars, pool>>

\* An execute / executemany / callproc inside the block, through the bound
\* object: its cursor() when it is a connection, itself when it is a cursor.
BlockCall(t, fn, pos) ==
    /\ Idle(t)
    /\ cm.open
    /\ LET cursor == IF cm.target = "connection" THEN CursorOf(cm.bound, dbi)
                     ELSE cm.bound
       IN CursorCall(t, cursor.kind = "proxy", cursor.integration, cm.flavor, fn, pos,
                     TRUE)

\* The block is left, with an exception in flight or without one.
ExitBlock(t, args) ==
    /\ Idle(t)
    /\ cm.open
    /\ cm' = [cm EXCEPT !.open = FALSE, !.exitGiven = args,
                        !.exitForwarded = IF cm.manager.kind = "proxy"
                                          THEN ProxyExitArgs(cm.flavor, args)
                                          ELSE args]
    /\ UNCHANGED <<threads, callVars, httpVars, lastOp, dbVars, flaskVars, pool>>

\* The operation name as the sync and the async traced_execution compute it.
OperationNameOf(kind, pos) ==
    IF kind = "traced_execution" THEN GetOperationName(pos)
    ELSE IF pos # <<>> THEN GetOperationName(pos) ELSE Return("")

\* traced_execution up to the call of query_method.
TracedExecutionEnter(t) ==
    /\ t \in threads
    /\ stack[t] # <<>>
    /\ LET f == Head(stack[t])
           op == OperationNameOf(f.kind, f.args.pos)
       IN /\ f.kind \in {"traced_execution", "async_traced_execution"}
          /\ f.phase = "enter"
          /\ IF op.kind = "raise"
             THEN /\ PopWith(t, op)
                  /\ UNCHANGED <<obs, spans>>
             ELSE \E recording \in BOOLEAN :
                  LET integration == f.chain[1]
                      name == IF op.val # "" THEN op.val
                              ELSE FallbackName(integration)
                      sp == PopulateSpan(NewSpan(name, "CLIENT", recording, t),
                                         integration, f.args.pos)
                      id == Len(spans[t]) + 1
                  IN /\ spans' = [spans EXCEPT ![t] = Append(@, sp)]
                     /\ CallFrom(t, [f EXCEPT !.active = TRUE, !.span = id],
                                 Frame("query_method", f.fn, <<>>, f.args))
                     /\ obs' = [obs EXCEPT ![t].started = @ + 1,
                                           ![t].spanIds = @ \cup {id}]
                     /\ UNCHANGED result
    /\ UNCHANGED <<threads, ctx, httpVars, lastOp, dbVars, flaskVars, proxyVars>>

\* The underlying cursor method: a value or a fault.
QueryMethod(t, out) ==
    /\ t \in threads
    /\ stack[t] # <<>>
    /\ LET f == Head(stack[t])
       IN /\ f.kind = "query_method"
          /\ f.phase = "enter"
          /\ PopWith(t, out)
          /\ obs' = [obs EXCEPT ![t].invoked = Append(@, [fn |-> f.fn, args |-> f.args]),
                                ![t].delegated = out]
    /\ UNCHANGED <<threads, ctx, spans, httpVars, lastOp, dbVars, flaskVars, proxyVars>>

\* What traced_execution hands its caller: query_method's value or fault.
TracedExecutionOutcome(pending) == pending

\* traced_execution after query_method: the with block is left.
TracedExecutionReturn(t) ==
    /\ t \in threads
    /\ stack[t] # <<>>
    /\ LET f == Head(stack[t])
           out == TracedExecutionOutcome(f.pending)
       IN /\ f.kind \in {"traced_execution", "async_traced_execution"}
          /\ f.phase = "ret"
          /\ spans' = [spans EXCEPT ![t][f.span] = ExitSpan(@, out)]
          /\ PopWith(t, out)
    /\ UNCHANGED <<threads, obs, ctx, httpVars, lastOp, dbVars, flaskVars, proxyVars>>

DbNext ==
    \/ \E t \in AllThreads, db \in {"", "testdb"}, capture \in BOOLEAN :
          Connect(t, db, capture)
    \/ \E t \in AllThreads, db \in {"", "testdb"} : RawConnect(t, db)
    \/ \E t \in AllThreads, capture \in BOOLEAN : InstrumentConnection(t, capture)
    \/ \E t \in AllThreads : UninstrumentConnection(t)
    \/ \E t \in AllThreads, flavor \in {"sync", "async"}, fn \in DbMethods,
          pos \in DbArgLists : DbCall(t, flavor, fn, pos)
    \/ \E t \in AllThreads : TracedExecutionEnter(t)
    \/ \E t \in AllThreads, out \in DbOutcomes : QueryMethod(t, out)
    \/ \E t \in AllThreads : TracedExecutionReturn(t)

\* A connection of the pool and the integration its proxy (if any) was built over.
Pooled(c, integration) == [conn |-> c, integration |-> integration]

NoPool ==
    [kind |-> "none", integration |-> NoIntegration, free |-> <<>>, held |-> <<>>,
     lastAcquire |-> ""]

\* The number of tracing proxies around a connection.
RECURSIVE ProxyDepth(_)
ProxyDepth(c) == IF c.kind = "proxy" THEN 1 + ProxyDepth(c.wrapped[1]) ELSE 0

\* AiopgIntegration.wrapped_pool: the pool is created, one connection is
\* acquired from it for its attributes and released, and a pool proxy over
\* this integration is returned.
CreatePool(t, database, capture) ==
    /\ Idle(t)
    /\ pool.kind = "none"
    /\ LET c == RawConnection(database)
       IN pool' = [NoPool EXCEPT !.kind = "proxy",
                                 !.integration = NewIntegration(c.database, capture),
                                 !.free = <<Pooled(c, NoIntegration)>>]
    /\ UNCHANGED <<threads, callVars, httpVars, lastOp, dbVars, flaskVars, cm>>

\* Mutant: _acquire wraps whatever the pool gives.
WrapAcquired_Always(p, integration) ==
    Pooled(TracedConnectionProxy(p.conn), integration)

\* TracedPoolProxy._acquire after `await self.__wrapped__._acquire()`.
WrapAcquired(p, integration) ==
    IF p.conn.kind # "proxy"
    THEN Pooled(TracedConnectionProxy(p.conn), integration)
    ELSE p

\* pool.acquire(): the pool gives a free connection, or a new one while it
\* has room.
Acquire(t) ==
    /\ Idle(t)
    /\ pool.kind = "proxy"
    /\ pool.free # <<>> \/ Len(pool.held) < PoolSize
    /\ LET given == IF pool.free # <<>> THEN Head(pool.free)
                    ELSE Pooled(RawConnection(pool.integration.database), NoIntegration)
       IN pool' = [pool EXCEPT !.free = IF @ # <<>> THEN Tail(@) ELSE @,
                               !.held = Append(@, WrapAcquired(given, pool.integration)),
                               !.lastAcquire = IF given.conn.kind = "proxy"
                                               THEN "as_is" ELSE "wrapped"]
    /\ UNCHANGED <<threads, callVars, httpVars, lastOp, dbVars, flaskVars, cm>>

\* pool.release(conn) with the connection as it was handed out, or with the
\* connection the caller unwrapped from it.
Release(t, i, unwrapped) ==
    /\ Idle(t)
    /\ pool.kind = "proxy"
    /\ i \in 1..Len(pool.held)
    /\ LET h == pool.held[i]
           back == IF unwrapped /\ h.conn.kind = "proxy"
                   THEN Pooled(h.conn.wrapped[1], NoIntegration)
                   ELSE h
       IN pool' = [pool EXCEPT !.free = Append(@, back),
                               !.held = SubSeq(@, 1, i - 1) \o SubSeq(@, i + 1, Len(@)),
                               !.lastAcquire = ""]
    /\ UNCHANGED <<threads, callVars, httpVars, lastOp, dbVars, flaskVars, cm>>

\* ------------------------------------------------------------------ flask
\* A URL is a sequence of tokens; the first one is the scheme and host.
Host == "http://localhost"
PathHello == <<"/", "hello", "/", "123">>
PathHello500 == <<"/", "hello", "/", "500">>
PathBye == <<"/", "bye">>
PathExcludedArg123 == <<"/", "excluded_arg", "/", "123">>
PathExcludedArg125 == <<"/", "excluded_arg", "/", "125">>
PathExcludedNoarg == <<"/", "excluded_noarg">>
PathExcludedNoarg2 == <<"/", "excluded_noarg", "2">>
Paths == {PathHello, PathHello500, PathBye, PathExcludedArg123, PathExcludedArg125,
          PathExcludedNoarg, PathExcludedNoarg2}
FlaskRequests == {<<"GET", pth>> : pth \in Paths} \cup {<<"POST", PathBye>>}
UrlOf(path) == <<Host>> \o path

\* OTEL_PYTHON_FLASK_EXCLUDED_URLS of the tests, split at the commas.
ExcludedUrls == {<<Host>> \o PathExcludedArg123, <<"excluded_noarg">>}

\* re.search of one pattern in the URL: the pattern occurs somewhere in it.
Search(pattern, url) ==
    \E i \in 1..Len(url) :
        /\ i + Len(pattern) - 1 <= Len(url)
        /\ \A k \in 1..Len(pattern) : url[i + k - 1] = pattern[k]

\* ExcludeList.url_disabled
UrlDisabled(url) == \E pattern \in ExcludedUrls : Search(pattern, url)

\* Mutant: _before_request never looks at the exclusion list.
BeforeRequestExcluded_Never(r) == FALSE

\* `if _excluded_urls.url_disabled(flask.request.url)` of _before_request.
BeforeRequestExcluded(r) == UrlDisabled(UrlOf(r.path))

\* `if not _excluded_urls.url_disabled(flask.request.url)` of _start_response.
StartResponseExcluded(r) == UrlDisabled(UrlOf(r.path))

\* `if _excluded_urls.url_disabled(flask.request.url)` of _teardown_request.
TeardownExcluded(r) == UrlDisabled(UrlOf(r.path))

\* The URL rule the app's routing matches (no rule: "").
RuleOf(method, path) ==
    IF method # "GET" THEN ""
    ELSE IF path \in {PathHello, PathHello500} THEN "/hello/<int:helloid>"
    ELSE IF path \in {PathExcludedArg123, PathExcludedArg125}
         THEN "/excluded_arg/<int:helloid>"
    ELSE IF path = PathExcludedNoarg THEN "/excluded_noarg"
    ELSE IF path = PathExcludedNoarg2 THEN "/excluded_noarg2"
    ELSE ""

\* What the app answers: 404 without a rule, 500 when the view raises.
ViewStatus(method, path) ==
    IF RuleOf(method, path) = "" THEN "404"
    ELSE IF path = PathHello500 THEN "500" ELSE "200"

\* otel_wsgi.get_default_span_name(environ)
WsgiDefaultSpanName(method) == "HTTP " \o method

\* Mutant: the span is named after the raw path.
GetDefaultSpanName_RawPath(r) == Str(r.path)

\* get_default_span_name(): the rule, or the WSGI default when there is none.
GetDefaultSpanName(r) ==
    IF r.url_rule # "" THEN r.url_rule ELSE WsgiDefaultSpanName(r.method)

\* name_callback() of a _before_request closure.
FlaskSpanName(name_callback, r) ==
    IF name_callback = "default" THEN GetDefaultSpanName(r)
    ELSE "flask-custom-span-name"

NoEnviron == [starttime |-> FALSE, span |-> 0, activation |-> 0, token |-> 0]
NoRequest ==
    [pc |-> "idle", method |-> "", path |-> <<>>, url_rule |-> "", layers |-> 0,
     environ |-> NoEnviron, status |-> "", events |-> <<>>, missing |-> 0,
     attached |-> <<>>]
Event(e, id) == [ev |-> e, id |-> id]

NewApp ==
    [is_instrumented |-> "absent", wsgi_layers |-> 0, original_wsgi_app |-> <<>>,
     before_request_funcs |-> <<>>, teardown_request_funcs |-> 0,
     before_request_attr |-> <<>>]

\* The identity of a new closure: not that of any registered one.
FreshId(funcs) ==
    CHOOSE n \in 1..(Len(funcs) + 1) :
        /\ \A i \in 1..Len(funcs) : funcs[i].id # n
        /\ \A m \in 1..(n - 1) : \E i \in 1..Len(funcs) : funcs[i].id = m

\* list.remove(x): the first element equal to x goes.
RECURSIVE RemoveFirst(_, _)
RemoveFirst(funcs, x) ==
    IF funcs = <<>> THEN <<>>
    ELSE IF Head(funcs) = x THEN Tail(funcs)
    ELSE <<Head(funcs)>> \o RemoveFirst(Tail(funcs), x)

\* Mutant: instrument_app does not look at the flag.
NotYetInstrumented_Always(a) == TRUE

\* `if not app._is_instrumented` of instrument_app, after the hasattr default.
NotYetInstrumented(a) == a.is_instrumented # "True"

\* instrument_app: the app with the wrapper and the hooks installed.
InstrumentedApp(a, name_callback) ==
    LET closure == [id |-> FreshId(a.before_request_funcs),
                    name_callback |-> name_callback]
    IN [a EXCEPT !.original_wsgi_app = <<a.wsgi_layers>>,
                 !.wsgi_layers = @ + 1,
                 !.before_request_attr = <<closure>>,
                 !.before_request_funcs = Append(@, closure),
                 !.teardown_request_funcs = @ + 1,
                 !.is_instrumented = "True"]

\* Mutant: uninstrument_app restores wsgi_app but leaves the hooks registered.
UninstrumentedApp_KeepsHooks(a) ==
    [a EXCEPT !.wsgi_layers = a.original_wsgi_app[1],
              !.original_wsgi_app = <<>>,
              !.is_instrumented = "False"]

\* uninstrument_app: the app with the wrapper and the hooks taken out.
UninstrumentedApp(a) ==
    [a EXCEPT !.wsgi_layers = a.original_wsgi_app[1],
              !.before_request_funcs = RemoveFirst(@, a.before_request_attr[1]),
              !.teardown_request_funcs = @ - 1,
              !.original_wsgi_app = <<>>,
              !.is_instrumented = "False"]

\* FlaskInstrumentor().instrument_app(app, name_callback)
InstrumentApp(name_callback) ==
    /\ req.pc = "idle"
    /\ IF NotYetInstrumented(app)
       THEN /\ app' = InstrumentedApp(app, name_callback)
            /\ lastOp' = [op |-> "instrument_app", warned |-> FALSE]
       ELSE /\ app' = [app EXCEPT !.is_instrumented = "True"]
            /\ lastOp' = [op |-> "instrument_app", warned |-> TRUE]
    /\ UNCHANGED <<req, flaskSpans, handled, clientVars, classVars>>

\* FlaskInstrumentor().uninstrument_app(app)
UninstrumentApp ==
    /\ req.pc = "idle"
    /\ IF app.is_instrumented = "True"
       THEN /\ app' = UninstrumentedApp(app)
            /\ lastOp' = [op |-> "uninstrument_app", warned |-> FALSE]
       ELSE /\ app' = [app EXCEPT !.is_instrumented = "False"]
            /\ lastOp' = [op |-> "uninstrument_app", warned |-> TRUE]
    /\ UNCHANGED <<req, flaskSpans, handled, clientVars, classVars>>

\* The WSGI server calls app.wsgi_app: every _wrapped_app layer stamps the start
\* time, then Flask routes the request.
WsgiCall(method, path) ==
    /\ req.pc = "idle"
    /\ Len(handled) < MaxRequests
    /\ req' = [NoRequest EXCEPT !.pc = "routed", !.method = method, !.path = path,
                                !.url_rule = RuleOf(method, path),
                                !.layers = app.wsgi_layers,
                                !.environ.starttime = (app.wsgi_layers > 0)]
    /\ UNCHANGED <<app, flaskSpans, handled, lastOp, clientVars, classVars>>

\* The span _before_request starts and populates.
FlaskSpanOpened(name, r, recording) ==
    LET s0 == NewSpan(name, "SERVER", recording, 0)
        s1 == SetAttribute(SetAttribute(s0, "http.method", r.method),
                           "http.target", Str(r.path))
    IN IF ~recording THEN s0
       ELSE IF r.url_rule # "" THEN SetAttribute(s1, "http.route", r.url_rule)
       ELSE s1

\* One _before_request closure on the state st = [r, sp] (request, spans).
BeforeRequest(closure, st) ==
    IF BeforeRequestExcluded(st.r) THEN st
    ELSE LET id == Len(st.sp) + 1
             name == FlaskSpanName(closure.name_callback, st.r)
         IN [r |-> [st.r EXCEPT
                       !.environ.activation = id,
                       !.environ.span = id,
                       !.environ.token = id,
                       !.attached = <<id>> \o @,
                       !.events = @ \o <<Event("attach", id), Event("start", id),
                                         Event("enter", id)>>],
             sp |-> Append(st.sp, FlaskSpanOpened(name, st.r, st.recording))
             , recording |-> st.recording]

\* Flask's preprocess_request: the registered before_request functions in order.
RECURSIVE RunBefore(_, _)
RunBefore(funcs, st) ==
    IF funcs = <<>> THEN st
    ELSE RunBefore(Tail(funcs), BeforeRequest(Head(funcs), st))

BeforeRequestHooks ==
    /\ req.pc = "routed"
    /\ \E recording \in BOOLEAN :
          LET st == RunBefore(app.before_request_funcs,
                              [r |-> req, sp |-> flaskSpans, recording |-> recording])
          IN /\ req' = [st.r EXCEPT !.pc = "before_done"]
             /\ flaskSpans' = st.sp
    /\ UNCHANGED <<app, handled, lastOp, clientVars, classVars>>

\* The view runs (or no rule matched) and Flask builds the response.
Dispatch ==
    /\ req.pc = "before_done"
    /\ req' = [req EXCEPT !.pc = "dispatched",
                          !.status = ViewStatus(req.method, req.path)]
    /\ UNCHANGED <<app, flaskSpans, handled, lastOp, clientVars, classVars>>

\* otel_wsgi.add_response_attributes(span, status, response_headers)
AddResponseAttributes(s, status) ==
    IF ~s.recording THEN s
    ELSE SetStatus(SetAttribute(s, "http.status_code", status),
                   HttpStatusToStatusCode(status))

\* One _start_response layer on the state st = [r, sp].
StartResponseLayer(st) ==
    IF StartResponseExcluded(st.r) THEN st
    ELSE IF st.r.environ.span # 0
    THEN [st EXCEPT !.sp[st.r.environ.span] = AddResponseAttributes(@, st.r.status),
                    !.r.events = Append(@, Event("response", st.r.environ.span))]
    ELSE [st EXCEPT !.r.missing = @ + 1]

RECURSIVE RunStartResponse(_, _)
RunStartResponse(n, st) ==
    IF n = 0 THEN st ELSE RunStartResponse(n - 1, StartResponseLayer(st))

\* The response is started through the _start_response of every wrapper layer.
StartResponse ==
    /\ req.pc = "dispatched"
    /\ LET st == RunStartResponse(req.layers, [r |-> req, sp |-> flaskSpans])
       IN /\ req' = [st.r EXCEPT !.pc = "responded"]
          /\ flaskSpans' = st.sp
    /\ UNCHANGED <<app, handled, lastOp, clientVars, classVars>>

\* Mutant: the token is never detached.
Detach_Leaks(attached, token) == attached

\* context.detach(token): the token's context leaves the chain.
Detach(attached, token) == SelectSeq(attached, LAMBDA x : x # token)

\* _teardown_request(exc) on the state st = [r, sp].
TeardownRequest(st) ==
    IF TeardownExcluded(st.r) THEN st
    ELSE IF st.r.environ.activation = 0 THEN st
    ELSE LET id == st.r.environ.activation
         IN [st EXCEPT !.sp[id] = IF @.ended > 0 THEN @
                                  ELSE ExitSpan(@, IF st.r.status = "500"
                                                   THEN Raise("view error")
                                                   ELSE Return(st.r.status)),
                       !.r.attached = Detach(@, st.r.environ.token),
                       !.r.events = @ \o <<Event("exit", id),
                                           Event("detach", st.r.environ.token)>>]

RECURSIVE RunTeardown(_, _)
RunTeardown(n, st) == IF n = 0 THEN st ELSE RunTeardown(n - 1, TeardownRequest(st))

\* Flask's do_teardown_request: the registered teardown functions.
TeardownHooks ==
    /\ req.pc = "responded"
    /\ LET st == RunTeardown(app.teardown_request_funcs, [r |-> req, sp |-> flaskSpans])
       IN /\ req' = [st.r EXCEPT !.pc = "done"]
          /\ flaskSpans' = st.sp
    /\ handled' = Append(handled, [method |-> req.method, path |-> req.path,
                                    layers |-> req.layers])
    /\ UNCHANGED <<app, lastOp, clientVars, classVars>>

\* The client has the response; the app waits for the next request.
ResponseRead ==
    /\ req.pc = "done"
    /\ req' = NoRequest
    /\ UNCHANGED <<app, flaskSpans, handled, lastOp, clientVars, classVars>>

\* _InstrumentedFlask.__init__: the app comes with the wrapper and the hooks,
\* named by the class attribute name_callback; it sets no _is_instrumented.
InstrumentedFlask(name_callback) ==
    LET closure == [id |-> 1, name_callback |-> name_callback]
    IN [NewApp EXCEPT !.wsgi_layers = 1,
                      !.before_request_attr = <<closure>>,
                      !.before_request_funcs = <<closure>>,
                      !.teardown_request_funcs = 1]

\* flask.Flask and the class attribute _InstrumentedFlask.name_callback;
\* given is the name_callback keyword of the instrument() call in force.
NewFlaskClass ==
    [is_instrumented |-> FALSE, patched |-> FALSE, name_callback |-> "default",
     given |-> "absent"]

\* FlaskInstrumentor().instrument(name_callback=cb); cb is "absent" or a callable.
FlaskInstrument(cb) ==
    /\ req.pc = "idle"
    /\ InstrumentorShouldInstrument(flaskClass.is_instrumented)
    /\ flaskClass' = [is_instrumented |-> TRUE, patched |-> TRUE,
                      name_callback |-> IF cb = "absent" THEN flaskClass.name_callback
                                        ELSE cb,
                      given |-> cb]
    /\ lastOp' = [op |-> "flask_instrument", warned |-> FALSE]
    /\ UNCHANGED <<app, req, flaskSpans, handled, fastapi, clientVars>>

\* FlaskInstrumentor().uninstrument()
FlaskUninstrument ==
    /\ req.pc = "idle"
    /\ InstrumentorShouldUninstrument(flaskClass.is_instrumented)
    /\ flaskClass' = [flaskClass EXCEPT !.is_instrumented = FALSE, !.patched = FALSE,
                                        !.given = "absent"]
    /\ lastOp' = [op |-> "flask_uninstrument", warned |-> FALSE]
    /\ UNCHANGED <<app, req, flaskSpans, handled, fastapi, clientVars>>

\* app = flask.Flask(__name__), with flask.Flask as it is bound now.
CreateApp ==
    /\ req.pc = "idle"
    /\ app' = IF flaskClass.patched THEN InstrumentedFlask(flaskClass.name_callback)
              ELSE NewApp
    /\ lastOp' = [op |-> "create_app", warned |-> FALSE]
    /\ UNCHANGED <<req, flaskSpans, handled, classVars, clientVars>>

FlaskNext ==
    \/ \E cb \in {"default", "custom"} : InstrumentApp(cb)
    \/ UninstrumentApp
    \/ \E rq \in FlaskRequests : WsgiCall(rq[1], rq[2])
    \/ BeforeRequestHooks
    \/ Dispatch
    \/ StartResponse
    \/ TeardownHooks
    \/ ResponseRead

\* ------------------------------------------------------------------ fastapi
NoFastApiApp == [exists |-> FALSE, middleware |-> 0, is_instrumented |-> FALSE]
NewFastApi ==
    [is_instrumented |-> FALSE, patched |-> FALSE, app |-> NoFastApiApp, spans |-> 0]

\* fastapi.FastAPI() and _InstrumentedFastAPI.__init__: the latter adds the
\* tracing middleware and sets no is_instrumented_by_opentelemetry.
NewFastApiApp(patched) ==
    [exists |-> TRUE, middleware |-> IF patched THEN 1 ELSE 0,
     is_instrumented |-> FALSE]

\* FastAPIInstrumentor().instrument()
FastApiInstrument ==
    /\ InstrumentorShouldInstrument(fastapi.is_instrumented)
    /\ fastapi' = [fastapi EXCEPT !.is_instrumented = TRUE, !.patched = TRUE]
    /\ UNCHANGED <<app, req, flaskSpans, handled, flaskClass, lastOp, clientVars>>

\* FastAPIInstrumentor().uninstrument()
FastApiUninstrument ==
    /\ InstrumentorShouldUninstrument(fastapi.is_instrumented)
    /\ fastapi' = [fastapi EXCEPT !.is_instrumented = FALSE, !.patched = FALSE]
    /\ UNCHANGED <<app, req, flaskSpans, handled, flaskClass, lastOp, clientVars>>

\* app = fastapi.FastAPI(), with fastapi.FastAPI as it is bound now.
FastApiCreateApp ==
    /\ fastapi' = [fastapi EXCEPT !.app = NewFastApiApp(fastapi.patched), !.spans = 0]
    /\ UNCHANGED <<app, req, flaskSpans, handled, flaskClass, lastOp, clientVars>>

\* FastAPIInstrumentor.instrument_app(app)
FastApiInstrumentApp ==
    /\ fastapi.app.exists
    /\ fastapi' = IF ~fastapi.app.is_instrumented
                  THEN [fastapi EXCEPT !.app.middleware = @ + 1,
                                       !.app.is_instrumented = TRUE]
                  ELSE fastapi
    /\ UNCHANGED <<app, req, flaskSpans, handled, flaskClass, lastOp, clientVars>>

\* OpenTelemetryMiddleware: every layer of it starts one span for the request.
MiddlewareSpans(layers) == layers

\* One request served by the FastAPI app.
FastApiRequest ==
    /\ fastapi.app.exists
    /\ fastapi' = [fastapi EXCEPT !.spans = MiddlewareSpans(fastapi.app.middleware)]
    /\ UNCHANGED <<app, req, flaskSpans, handled, flaskClass, lastOp, clientVars>>

FastApiNext ==
    \/ FastApiInstrument
    \/ FastApiUninstrument
    \/ FastApiCreateApp
    \/ FastApiInstrumentApp
    \/ FastApiRequest

\* ------------------------------------------------------------------ specification
InitCommon ==
    /\ stack = [t \in AllThreads |-> <<>>]
    /\ result = [t \in AllThreads |-> None]
    /\ obs = [t \in AllThreads |-> NoObs]
    /\ ctx = [t \in AllThreads |->
                 [suppress_instrumentation |-> FALSE, suppress_http |-> FALSE]]
    /\ spans = [t \in AllThreads |-> <<>>]
    /\ sessionRequest = <<>>
    /\ sessionSend = <<>>
    /\ requestsInstrumented = FALSE
    /\ session = NewSessionObject
    /\ lastOp = [op |-> "none", warned |-> FALSE]
    /\ dbi = NoIntegration
    /\ connection = NoConnection
    /\ app = NewApp
    /\ req = NoRequest
    /\ flaskSpans = <<>>
    /\ handled = <<>>
    /\ flaskClass = NewFlaskClass
    /\ fastapi = NewFastApi
    /\ cm = NoBlock
    /\ pool = NoPool

Init ==
    /\ threads = {1}
    /\ InitCommon

HttpNext ==
    \/ \E t \in AllThreads, self \in {"fresh", "session"}, fn \in {"request", "send"},
          m \in Methods, u \in Urls, h \in {"absent", "given"}, suppress \in BOOLEAN :
             HttpCall(t, self, fn, m, u, h, suppress)
    \/ \E t \in AllThreads : WrapperEnter(t)
    \/ \E t \in AllThreads : WrapperReturn(t)
    \/ \E t \in AllThreads : OrigRequestEnter(t)
    \/ \E t \in AllThreads : OrigRequestReturn(t)
    \/ \E t \in AllThreads, out \in HttpOutcomes : OrigSend(t, out)
    \/ \E t \in AllThreads, cfg \in Configs : Instrument(t, cfg)
    \/ \E t \in AllThreads : Uninstrument(t)
    \/ \E t \in AllThreads : UninstrumentSession(t)
    \/ \E t \in AllThreads : NewSession(t)
    \/ \E t \in AllThreads : CallerContinues(t)

\* The HTTP client and the DB instrumentation share no state: a run exercises
\* the one while the other is as constructed.
HttpAtRest ==
    /\ sessionRequest = <<>>
    /\ sessionSend = <<>>
    /\ ~requestsInstrumented
    /\ session = NewSessionObject
    /\ lastOp.op \notin {"instrument", "uninstrument", "uninstrument_session"}

DbAtRest ==
    /\ dbi = NoIntegration
    /\ connection = NoConnection
    /\ lastOp.op \notin {"connect", "connect_raised", "instrument_connection",
                        "uninstrument_connection"}

Next ==
    \/ DbAtRest /\ HttpNext
    \/ HttpAtRest /\ DbNext

Spec == Init /\ [][Next]_vars

SpecFlask == Init /\ [][FlaskNext]_vars

\* Global and per-app instrumentation of the web frameworks together; the two
\* frameworks share no state and a run exercises one of them.
FlaskMixedAtRest ==
    /\ app = NewApp
    /\ req = NoRequest
    /\ flaskSpans = <<>>
    /\ handled = <<>>
    /\ flaskClass = NewFlaskClass
    /\ lastOp.op = "none"

NextMixed ==
    \/ /\ fastapi = NewFastApi
       /\ \/ \E cb \in {"absent", "custom"} : FlaskInstrument(cb)
          \/ FlaskUninstrument
          \/ CreateApp
          \/ InstrumentApp("default")
          \/ UninstrumentApp
          \/ \E rq \in {<<"GET", PathHello>>, <<"POST", PathBye>>,
                         <<"GET", PathExcludedArg123>>} : WsgiCall(rq[1], rq[2])
          \/ BeforeRequestHooks
          \/ Dispatch
          \/ StartResponse
          \/ TeardownHooks
          \/ ResponseRead
    \/ FlaskMixedAtRest /\ FastApiNext

SpecMixed == Init /\ [][NextMixed]_vars

\* Two threads making HTTP calls at the same time, with the default callbacks.
InitThreads ==
    /\ threads = AllThreads
    /\ InitCommon

NextThreads ==
    \/ \E t \in AllThreads, fn \in {"request", "send"}, suppress \in BOOLEAN :
          HttpCall(t, "fresh", fn, "get", "http://a/", "absent", suppress)
    \/ \E t \in AllThreads : WrapperEnter(t)
    \/ \E t \in AllThreads : WrapperReturn(t)
    \/ \E t \in AllThreads : OrigRequestEnter(t)
    \/ \E t \in AllThreads : OrigRequestReturn(t)
    \/ \E t \in AllThreads, out \in HttpOutcomes : OrigSend(t, out)
    \/ \E t \in AllThreads : Instrument(t, Config("none", "none"))
    \/ \E t \in AllThreads : Uninstrument(t)
    \/ \E t \in AllThreads : CallerContinues(t)

SpecThreads == InitThreads /\ [][NextThreads]_vars

\* The DB proxies in detail: context-manager blocks over connections and
\* cursors, and the pool; a run exercises the connection or the pool.
BlockExitArgs == {"none", "exc"}

\* The connection in use came from ConnectObject.
FromObject(c) == c.kind = "proxy" /\ "object" \in DOMAIN c.wrapped[1]

NextConnection ==
    \/ \E t \in AllThreads, capture \in BOOLEAN :
          ~cm.open /\ ~FromObject(connection) /\ Connect(t, "testdb", capture)
    \/ \E t \in AllThreads :
          ~cm.open /\ ~FromObject(connection) /\ RawConnect(t, "testdb")
    \/ \E t \in AllThreads, c \in FlatObjects :
          cm = NoBlock /\ ConnectObject(t, DefaultAttributes, c, FALSE)
    \/ \E t \in AllThreads, c \in NestedObjects :
          cm = NoBlock /\ ConnectObject(t, InfoAttributes, c, FALSE)
    \/ \E t \in AllThreads, flavor \in {"sync", "async"},
          target \in {"connection", "cursor"} :
             ~FromObject(connection) /\ EnterBlock(t, flavor, target)
    \/ \E t \in AllThreads, fn \in DbMethods, pos \in {<<>>, <<StrArg(<<"S">>)>>} :
          BlockCall(t, fn, pos)
    \/ \E t \in AllThreads, args \in BlockExitArgs : ExitBlock(t, args)
    \/ \E t \in AllThreads, flavor \in {"sync", "async"}, fn \in DbMethods,
          pos \in {<<>>, <<StrArg(<<"S">>), ParamsArg>>} :
             /\ FromObject(connection) => flavor = "sync" /\ fn = "execute" /\ pos = <<>>
             /\ DbCall(t, flavor, fn, pos)
    \/ \E t \in AllThreads : TracedExecutionEnter(t)
    \/ \E t \in AllThreads, out \in DbOutcomes : QueryMethod(t, out)
    \/ \E t \in AllThreads : TracedExecutionReturn(t)
    \/ \E t \in AllThreads : CallerContinues(t)

ConnectionAtRest ==
    /\ DbAtRest
    /\ cm = NoBlock
    /\ \A t \in AllThreads : stack[t] = <<>> /\ result[t] = None /\ obs[t] = NoObs

NextPool ==
    \/ \E t \in AllThreads, db \in {"", "testdb"}, capture \in BOOLEAN :
          CreatePool(t, db, capture)
    \/ \E t \in AllThreads : Acquire(t)
    \/ \E t \in AllThreads, i \in 1..PoolSize, unwrapped \in BOOLEAN :
          Release(t, i, unwrapped)

NextProxy ==
    \/ ConnectionAtRest /\ NextPool
    \/ pool = NoPool /\ NextConnection

SpecProxy == Init /\ [][NextProxy]_vars

\* Two threads running traced executions over the connections of one program.
NextDbThreads ==
    \/ \E t \in AllThreads, db \in {"", "testdb"}, capture \in BOOLEAN :
          Connect(t, db, capture)
    \/ \E t \in AllThreads, flavor \in {"sync", "async"},
          pos \in {<<>>, <<StrArg(<<"S">>), ParamsArg>>} :
             DbCall(t, flavor, "execute", pos)
    \/ \E t \in AllThreads : TracedExecutionEnter(t)
    \/ \E t \in AllThreads, out \in DbOutcomes : QueryMethod(t, out)
    \/ \E t \in AllThreads : TracedExecutionReturn(t)
    \/ \E t \in AllThreads : CallerContinues(t)

SpecDbThreads == InitThreads /\ [][NextDbThreads]_vars

\* The client libraries and the Flask app share no state: a run exercises the
\* one while the other is as constructed.
ClientAtRest ==
    /\ \A t \in AllThreads : stack[t] = <<>> /\ result[t] = None
    /\ HttpAtRest
    /\ DbAtRest

FlaskAtRest ==
    /\ app = NewApp
    /\ req = NoRequest
    /\ flaskSpans = <<>>
    /\ handled = <<>>
    /\ flaskClass = NewFlaskClass
    /\ fastapi = NewFastApi
    /\ lastOp.op \notin {"instrument_app", "uninstrument_app", "create_app",
                        "flask_instrument", "flask_uninstrument"}

NextAll ==
    \/ FlaskAtRest /\ Next
    \/ ClientAtRest /\ FlaskNext

SpecAll == Init /\ [][NextAll]_vars

\* ------------------------------------------------------------------ properties
\* t's top-level call is over and its caller holds the outcome.
Completed(t) == stack[t] = <<>> /\ result[t] # None

\* How often the original callable <fn> ran during t's call.
InvokedCount(t, fn) ==
    Cardinality({i \in 1..Len(obs[t].invoked) : obs[t].invoked[i].fn = fn})

\* The original got the method, the URL and the positional arguments of the caller.
SameCallArgs(a, b) == a.method = b.method /\ a.url = b.url /\ a.pos = b.pos

\* C1: with Session.request and Session.send both instrumented, a top-level
\* Session.request call that reaches Session.send starts exactly one span, and
\* the instrumented send running below the active request wrapper is a plain
\* call-through that starts none.
C1_OneSpanForRequestAndSend ==
    \A t \in AllThreads :
        /\ ( /\ Completed(t)
             /\ obs[t].flavor = "http"
             /\ obs[t].fn = "request"
             /\ ~obs[t].suppressed
             /\ BoundFor(obs[t].self, "request") # <<>>
             /\ BoundFor(obs[t].self, "send") # <<>>
             /\ InvokedCount(t, "send") > 0 )
           => /\ obs[t].started = 1
              /\ Len(spans[t]) = 1
              /\ InvokedCount(t, "send") = 1
        /\ \A i \in 1..Len(stack[t]) :
              ( /\ stack[t][i].kind = "wrapper"
                /\ stack[t][i].fn = "send"
                /\ stack[t][i].phase # "enter"
                /\ \E j \in (i + 1)..Len(stack[t]) :
                      stack[t][j].kind = "wrapper" /\ stack[t][j].active )
              => ~stack[t][i].active /\ ctx[t].suppress_http

C1_Witness ==
    \E t \in AllThreads :
        /\ Completed(t)
        /\ obs[t].fn = "request"
        /\ sessionRequest # <<>>
        /\ sessionSend # <<>>
        /\ obs[t].started = 1
        /\ InvokedCount(t, "send") = 1
        /\ result[t] = Return("resp200")

\* C2: when the delegated library call (Session.request / send, cursor execute /
\* executemany / callproc) raises and no user callback raises, the caller gets
\* that very fault, and every span of the call has been ended by then.
C2_FaultReachesCallerUnchanged ==
    \A t \in AllThreads :
        ( /\ Completed(t)
          /\ obs[t].delegated.kind = "raise"
          /\ ~obs[t].callbackRaised )
        => /\ result[t] = obs[t].delegated
           /\ \A i \in 1..Len(spans[t]) : spans[t][i].ended = 1

C2_Witness ==
    \E t \in AllThreads :
        /\ Completed(t)
        /\ obs[t].flavor = "http"
        /\ obs[t].delegated = Raise("HTTPError")
        /\ result[t] = Raise("HTTPError")
        /\ Len(spans[t]) = 1
        /\ spans[t][1].ended = 1

\* C3: for every successful delegated call the instrumented call has invoked
\* the original callable exactly once, with the caller's arguments, and hands
\* the caller exactly the value the original returned.
C3_SuccessRoundTrip ==
    \A t \in AllThreads :
        ( /\ Completed(t)
          /\ obs[t].delegated.kind = "return" )
        => /\ result[t] = obs[t].delegated
           /\ InvokedCount(t, obs[t].fn) = 1
           /\ \A i \in 1..Len(obs[t].invoked) :
                 obs[t].invoked[i].fn = obs[t].fn
                 => SameCallArgs(obs[t].invoked[i].args, obs[t].args)

\* C4: a fault raised inside the instrumentation layer (name_callback, the first
\* token of an empty or blank statement, attribute population, span_callback)
\* never keeps the delegated call from being invoked once, nor its result or
\* fault from reaching the caller unchanged.
C4_InstrumentationIsFailOpen ==
    \A t \in AllThreads :
        Completed(t)
        => /\ InvokedCount(t, obs[t].fn) = 1
           /\ result[t] = obs[t].delegated

\* C5: instrument twice in a row leaves one wrapper layer on Session.request
\* and on Session.send; an uninstrument then recovers the original callables,
\* and a request made in between starts one span, not two.
C5_InstrumentTwiceOneLayer ==
    /\ Len(sessionRequest) = (IF requestsInstrumented THEN 1 ELSE 0)
    /\ Len(sessionSend) = (IF requestsInstrumented THEN 1 ELSE 0)
    /\ lastOp.op = "uninstrument" => sessionRequest = <<>> /\ sessionSend = <<>>
    /\ \A t \in AllThreads :
          Completed(t) /\ obs[t].flavor = "http" => obs[t].started <= 1

C5_Witness ==
    \E t \in AllThreads :
        /\ lastOp = [op |-> "instrument", warned |-> TRUE]
        /\ Len(sessionRequest) = 1
        /\ Len(sessionSend) = 1
        /\ Completed(t)
        /\ obs[t].fn = "request"
        /\ obs[t].started = 1

\* The handled requests that went through a wrapper layer and were not excluded.
TracedHandled ==
    Cardinality({i \in 1..Len(handled) :
                    handled[i].layers > 0 /\ ~UrlDisabled(UrlOf(handled[i].path))})

\* The request in flight is one the instrumented app traces.
TracedRequest == req.pc # "idle" /\ req.layers > 0 /\ ~UrlDisabled(UrlOf(req.path))

\* The instrumentation is in place on the app exactly when the flag says so.
LayersOf(a) == IF a.is_instrumented = "True" THEN 1 ELSE 0

SameInstrumentation(a, b) ==
    /\ a.wsgi_layers = b.wsgi_layers
    /\ a.before_request_funcs = b.before_request_funcs
    /\ a.teardown_request_funcs = b.teardown_request_funcs
    /\ (a.is_instrumented = "True") <=> (b.is_instrumented = "True")

\* C6: whatever the sequence of instrument_app and uninstrument_app calls, the
\* WSGI app is wrapped at most once and the before_request and teardown hooks
\* are registered at most once; instrument_app on an instrumented app and
\* uninstrument_app on an uninstrumented one warn and leave the wrapper, the
\* hooks and the truth of the flag as they were.
C6_AtMostOneLayer ==
    /\ [](/\ app.wsgi_layers = LayersOf(app)
          /\ Len(app.before_request_funcs) = LayersOf(app)
          /\ app.teardown_request_funcs = LayersOf(app))
    /\ [][ /\ lastOp'.warned => SameInstrumentation(app, app')
           /\ ( /\ lastOp' # lastOp
                /\ lastOp'.op = "instrument_app"
                /\ app.is_instrumented = "True" ) => lastOp'.warned
           /\ ( /\ lastOp' # lastOp
                /\ lastOp'.op = "uninstrument_app"
                /\ app.is_instrumented # "True" ) => lastOp'.warned ]_vars

C6_Witness ==
    /\ lastOp = [op |-> "instrument_app", warned |-> TRUE]
    /\ app.wsgi_layers = 1
    /\ Len(app.before_request_funcs) = 1
    /\ app.teardown_request_funcs = 1

\* C7: once uninstrument_app has run on an instrumented app, wsgi_app is the
\* original again and the hooks are gone; requests handled from then on get
\* the answer the app gives anyway and add no span, and the spans finished
\* before stay one per traced request.
C7_UninstrumentRestores ==
    /\ [](app.is_instrumented # "True"
          => /\ app.wsgi_layers = 0
             /\ app.original_wsgi_app = <<>>
             /\ app.before_request_funcs = <<>>
             /\ app.teardown_request_funcs = 0
             /\ (req.pc = "done" => req.status = ViewStatus(req.method, req.path))
             /\ (req.pc \in {"idle", "done"}
                 => /\ Len(flaskSpans) = TracedHandled
                    /\ \A i \in 1..Len(flaskSpans) : flaskSpans[i].ended = 1))
    /\ [][ (app.is_instrumented # "True" /\ app'.is_instrumented # "True")
           => flaskSpans' = flaskSpans ]_vars

C7_Witness ==
    /\ lastOp = [op |-> "uninstrument_app", warned |-> FALSE]
    /\ req.pc = "done"
    /\ req.layers = 0
    /\ req.path = PathHello
    /\ Len(handled) = 2
    /\ handled[1].layers = 1
    /\ Len(flaskSpans) = 1
    /\ flaskSpans[1].ended = 1

\* C8: a non-excluded request through an instrumented app attaches a context,
\* starts one SERVER span and enters it in before_request; the span is not
\* ended before teardown; teardown exits it (ending it once) and then detaches
\* the token - whether the view answers, raises (500) or no route matches (404).
C8_OneServerSpanPerRequest ==
    TracedRequest =>
        LET id == req.environ.span
        IN /\ req.pc \in {"before_done", "dispatched", "responded"}
              => /\ id = Len(flaskSpans)
                 /\ id = TracedHandled + 1
                 /\ flaskSpans[id].kind = "SERVER"
                 /\ flaskSpans[id].ended = 0
                 /\ req.attached = <<req.environ.token>>
           /\ req.pc = "done"
              => /\ id = Len(flaskSpans)
                 /\ id = TracedHandled
                 /\ flaskSpans[id].kind = "SERVER"
                 /\ flaskSpans[id].ended = 1
                 /\ req.attached = <<>>
                 /\ req.events = <<Event("attach", req.environ.token),
                                   Event("start", id), Event("enter", id),
                                   Event("response", id), Event("exit", id),
                                   Event("detach", req.environ.token)>>

C8_Witness ==
    /\ TracedRequest
    /\ req.pc = "done"
    /\ req.status = "500"
    /\ flaskSpans[req.environ.span].ended = 1
    /\ flaskSpans[req.environ.span].status = "ERROR"
    /\ req.attached = <<>>

C8_Witness404 ==
    /\ TracedRequest
    /\ req.pc = "done"
    /\ req.status = "404"
    /\ flaskSpans[req.environ.span].ended = 1

\* C9: a request whose URL matches an exclusion pattern starts no span, gets
\* no response attributes and has nothing ended at teardown; the near miss
\* /excluded_arg/125 is traced with one span; and the three hooks agree: a
\* traced request never reaches _start_response or teardown without its span.
C9_ExcludedUrlsProduceNoSpan ==
    /\ (req.pc # "idle" /\ UrlDisabled(UrlOf(req.path)))
       => /\ req.events = <<>>
          /\ req.environ = [NoEnviron EXCEPT !.starttime = (req.layers > 0)]
          /\ req.missing = 0
          /\ req.attached = <<>>
          /\ Len(flaskSpans) = TracedHandled
    /\ (req.pc = "done" /\ req.path = PathExcludedArg125 /\ req.layers > 0)
       => /\ req.environ.span = Len(flaskSpans)
          /\ Len(flaskSpans) = TracedHandled
          /\ flaskSpans[req.environ.span].ended = 1
    /\ (req.pc # "idle" /\ req.layers > 0)
       => /\ BeforeRequestExcluded(req) = StartResponseExcluded(req)
          /\ StartResponseExcluded(req) = TeardownExcluded(req)
          /\ req.missing = 0

C9_Witness ==
    /\ req.pc = "done"
    /\ req.path = PathExcludedArg123
    /\ req.layers = 1
    /\ req.events = <<>>
    /\ Len(handled) = 2
    /\ handled[1].path = PathExcludedArg125
    /\ handled[1].layers = 1
    /\ Len(flaskSpans) = 1

\* C10: with the default name callback, the span of a request that matches a
\* URL rule is named after the rule and (when recording) carries it, not the
\* raw path, as http.route; the span of a request that matches no rule is
\* named "HTTP " + METHOD, has status code 404 and no http.route.
C10_DefaultSpanName ==
    ( /\ TracedRequest
      /\ req.pc = "done"
      /\ app.before_request_attr[1].name_callback = "default" )
    => LET s == flaskSpans[req.environ.span]
       IN /\ Len(flaskSpans) = TracedHandled
          /\ req.url_rule # ""
             => /\ s.name = req.url_rule
                /\ s.name # Str(req.path)
                /\ s.recording => AttrOf(s, "http.route") = req.url_rule
          /\ req.url_rule = ""
             => /\ s.name = "HTTP " \o req.method
                /\ AttrOf(s, "http.route") = "absent"
                /\ s.recording => AttrOf(s, "http.status_code") = "404"

C10_Witness ==
    /\ TracedRequest
    /\ req.pc = "done"
    /\ app.before_request_attr[1].name_callback = "default"
    /\ req.method = "POST"
    /\ flaskSpans[req.environ.span].name = "HTTP POST"
    /\ flaskSpans[req.environ.span].recording
    /\ AttrOf(flaskSpans[req.environ.span], "http.status_code") = "404"

C10_WitnessRule ==
    /\ TracedRequest
    /\ req.pc = "done"
    /\ app.before_request_attr[1].name_callback = "default"
    /\ flaskSpans[req.environ.span].name = "/hello/<int:helloid>"
    /\ AttrOf(flaskSpans[req.environ.span], "http.route") = "/hello/<int:helloid>"

\* C11: on a span that reports is_recording() false the instrumentation never
\* calls set_attribute or set_status - in the Flask hooks, in the HTTP client
\* wrapper, in the DB tracer - and never turns the call parameters into text.
Untouched(s) ==
    ~s.recording => /\ s.setCalls = 0
                    /\ s.strCalls = 0
                    /\ s.attrs = {}
                    /\ s.status = "UNSET"

C11_NotRecordingNoWork ==
    /\ \A t \in AllThreads : \A i \in 1..Len(spans[t]) : Untouched(spans[t][i])
    /\ \A i \in 1..Len(flaskSpans) : Untouched(flaskSpans[i])

C11_Witness ==
    \E t \in AllThreads :
        /\ Completed(t)
        /\ obs[t].flavor = "sync"
        /\ dbi.capture_parameters
        /\ Len(obs[t].args.pos) = 2
        /\ result[t] = Return("rows")
        /\ Len(spans[t]) = 1
        /\ ~spans[t][1].recording
        /\ spans[t][1].ended = 1
        /\ spans[t][1].setCalls = 0

C11_WitnessHttp ==
    \E t \in AllThreads :
        /\ Completed(t)
        /\ obs[t].flavor = "http"
        /\ result[t] = Return("resp500")
        /\ Len(spans[t]) = 1
        /\ ~spans[t][1].recording
        /\ spans[t][1].ended = 1

C11_WitnessFlask ==
    /\ req.pc = "done"
    /\ req.status = "500"
    /\ req.environ.span # 0
    /\ ~flaskSpans[req.environ.span].recording
    /\ flaskSpans[req.environ.span].ended = 1

\* t's call was a cursor method of the traced connection and is over.
TracedDbCallDone(t) ==
    /\ Completed(t)
    /\ obs[t].flavor \in {"sync", "async"}
    /\ connection.kind = "proxy"

\* One CLIENT span from the connection's integration, one call of the cursor method.
OneSpanOneCall(t) ==
    /\ Len(spans[t]) = 1
    /\ spans[t][1].kind = "CLIENT"
    /\ spans[t][1].ended = 1
    /\ InvokedCount(t, obs[t].fn) = 1
    /\ spans[t][1].recording
       => /\ AttrOf(spans[t][1], "db.system") = dbi.database_system
          /\ AttrOf(spans[t][1], "db.name") = connection.database
    /\ obs[t].args.pos = <<StrArg(<<"SELECT", " ", "1">>)>>
       => /\ spans[t][1].name = "SELECT"
          /\ spans[t][1].recording
             => AttrOf(spans[t][1], "db.statement") = "SELECT 1"

\* C12: every execute / executemany / callproc on a cursor obtained from a
\* connection the instrumented connect() returned gives exactly one CLIENT span,
\* built from the connection's integration, and calls the underlying cursor
\* method exactly once; execute("SELECT 1") gives one span named "SELECT" with
\* db.statement "SELECT 1".
C12_OneSpanPerExecute ==
    \A t \in AllThreads : TracedDbCallDone(t) => OneSpanOneCall(t)

\* The same for the statements that hold a token, and for calls without text.
C12_WithToken ==
    \A t \in AllThreads :
        (TracedDbCallDone(t) /\ OperationNameOf("traced_execution", obs[t].args.pos).kind = "return")
        => OneSpanOneCall(t)

C12_WithTokenWitness ==
    \E t \in AllThreads :
        /\ TracedDbCallDone(t)
        /\ obs[t].args.pos = <<StrArg(<<"SELECT", " ", "1">>)>>
        /\ spans[t][1].recording
        /\ dbi.database = "testdb"

\* The methods the kept Session object resolves to carry no instrumentation marker.
SessionUnmarked ==
    BoundFor("session", "request") = <<>> /\ BoundFor("session", "send") = <<>>

\* C13: uninstrument() after instrument() leaves Session.request and
\* Session.send the original callables, and requests made from then on start
\* no span and give what the original gives; unwrapping a Session whose
\* methods carry no marker changes neither the object nor the class and
\* completes without a fault.
C13_UninstrumentIsInverse ==
    /\ [](/\ lastOp = [op |-> "uninstrument", warned |-> FALSE]
             => /\ ClassBinding("request") = <<>>
                /\ ClassBinding("send") = <<>>
          /\ \A t \in AllThreads :
                ( /\ Completed(t)
                  /\ obs[t].flavor = "http"
                  /\ ClassBinding("request") = <<>>
                  /\ ClassBinding("send") = <<>> )
                => /\ spans[t] = <<>>
                   /\ obs[t].started = 0
                   /\ InvokedCount(t, obs[t].fn) = 1
                   /\ result[t] = obs[t].delegated)
    /\ [][ SessionUnmarked
           => /\ session' \in {session, NewSessionObject}
              /\ (lastOp' # lastOp /\ lastOp'.op = "uninstrument_session")
                 => /\ sessionRequest' = sessionRequest
                    /\ sessionSend' = sessionSend
                    /\ \A t \in AllThreads : result'[t] = result[t] ]_vars

C13_Witness ==
    \E t \in AllThreads :
        /\ lastOp = [op |-> "uninstrument", warned |-> FALSE]
        /\ Completed(t)
        /\ obs[t].fn = "request"
        /\ spans[t] = <<>>
        /\ InvokedCount(t, "request") = 1
        /\ InvokedCount(t, "send") = 1
        /\ result[t] = Return("resp200")

C13_WitnessUnmarked ==
    /\ lastOp.op = "uninstrument_session"
    /\ session = NewSessionObject
    /\ ~requestsInstrumented
    /\ ClassBinding("request") = <<>>

\* C14: uninstrument_connection gives back the very connection that
\* instrument_connection wrapped, and the cursor methods called through it
\* start no span; given a connection that is not a proxy it gives that same
\* connection back, with a warning and without a fault.
C14_UninstrumentConnectionIsInverse ==
    /\ [](/\ lastOp = [op |-> "uninstrument_connection", warned |-> FALSE]
             => connection.kind = "original" /\ dbi = NoIntegration
          /\ \A t \in AllThreads :
                ( /\ Completed(t)
                  /\ obs[t].flavor \in {"sync", "async"}
                  /\ connection.kind = "original" )
                => /\ spans[t] = <<>>
                   /\ obs[t].started = 0
                   /\ InvokedCount(t, obs[t].fn) = 1
                   /\ result[t] = obs[t].delegated)
    /\ [][ /\ (lastOp' # lastOp /\ lastOp'.op = "instrument_connection")
              => /\ connection'.kind = "proxy"
                 /\ connection'.wrapped = <<connection>>
           /\ (lastOp' # lastOp /\ lastOp'.op = "uninstrument_connection")
              => IF connection.kind = "proxy"
                 THEN /\ connection' = connection.wrapped[1]
                      /\ ~lastOp'.warned
                 ELSE /\ connection' = connection
                      /\ lastOp'.warned ]_vars

C14_Witness ==
    \E t \in AllThreads :
        /\ lastOp = [op |-> "uninstrument_connection", warned |-> FALSE]
        /\ connection = RawConnection("testdb")
        /\ Completed(t)
        /\ obs[t].flavor = "sync"
        /\ obs[t].args.pos = <<StrArg(<<"SELECT", " ", "1">>)>>
        /\ spans[t] = <<>>
        /\ result[t] = Return("rows")

C14_WitnessNotProxy ==
    /\ lastOp = [op |-> "uninstrument_connection", warned |-> TRUE]
    /\ connection = RawConnection("testdb")

\* `tok` is the first whitespace-separated token of the text `chars`.
IsFirstToken(tok, chars) ==
    \E i \in 1..Len(chars), j \in 1..Len(chars) :
        /\ i <= j
        /\ \A k \in 1..(i - 1) : chars[k] = " "
        /\ \A k \in i..j : chars[k] # " "
        /\ j = Len(chars) \/ chars[j + 1] = " "
        /\ tok = SubSeq(chars, i, j)

\* The name the resolution order gives: first token of a text statement, else
\* the database name, else the library name.
ResolvedName(name, pos, integration) ==
    IF pos # <<>> /\ pos[1].type = "str"
    THEN \E tok \in SeqsUpTo({"S", "SELECT", "1"}, Len(pos[1].text)) :
            IsFirstToken(tok, pos[1].text) /\ name = Str(tok)
    ELSE IF integration.database # "" THEN name = integration.database
    ELSE name = integration.database_system

\* C15: the span of an execute / executemany / callproc is named after the
\* first whitespace-separated token of a text statement; with a bytes
\* statement or no argument, after the database name when one was extracted
\* and else after the library; the sync and the async tracer agree on it.
C15_SpanNameResolution ==
    /\ \A t \in AllThreads : \A i \in 1..Len(spans[t]) :
          obs[t].flavor \in {"sync", "async"}
          => ResolvedName(spans[t][i].name, obs[t].args.pos, dbi)
    /\ \A pos \in DbArgLists :
          OperationNameOf("traced_execution", pos)
             = OperationNameOf("async_traced_execution", pos)

C15_Witness ==
    \E t \in AllThreads :
        /\ Completed(t)
        /\ obs[t].flavor = "async"
        /\ obs[t].args.pos = <<BytesArg(<<"S">>), ParamsArg>>
        /\ dbi.database = "testdb"
        /\ Len(spans[t]) = 1
        /\ spans[t][1].name = "testdb"

C15_WitnessNoArgs ==
    \E t \in AllThreads :
        /\ Completed(t)
        /\ obs[t].flavor = "sync"
        /\ obs[t].args.pos = <<>>
        /\ dbi.database = ""
        /\ Len(spans[t]) = 1
        /\ spans[t][1].name = "postgresql"

C15_WitnessToken ==
    \E t \in AllThreads :
        /\ Completed(t)
        /\ obs[t].args.pos = <<StrArg(<<" ", "S">>)>>
        /\ Len(spans[t]) = 1
        /\ spans[t][1].name = "S"

\* C16: a recording span of an execution carries db.statement.parameters, the
\* text form of the second positional argument, exactly when the integration
\* captures parameters and the call has two positional arguments or more; with
\* capture off no span carries it and the parameters are never turned into text.
C16_ParametersOnlyWhenCaptured ==
    \A t \in AllThreads : \A i \in 1..Len(spans[t]) :
        obs[t].flavor \in {"sync", "async"}
        => LET s == spans[t][i]
               pos == obs[t].args.pos
               params == AttrOf(s, "db.statement.parameters")
           IN /\ s.recording
                 => /\ (params # "absent")
                       <=> (dbi.capture_parameters /\ Len(pos) >= 2)
                    /\ params # "absent" => params = "(1)" /\ s.strCalls = 1
              /\ ~dbi.capture_parameters => params = "absent" /\ s.strCalls = 0
              /\ ~s.recording => params = "absent"

C16_Witness ==
    \E t \in AllThreads :
        /\ Completed(t)
        /\ obs[t].flavor = "sync"
        /\ dbi.capture_parameters
        /\ Len(obs[t].args.pos) = 2
        /\ spans[t][1].recording
        /\ AttrOf(spans[t][1], "db.statement.parameters") = "(1)"

C16_WitnessOff ==
    \E t \in AllThreads :
        /\ Completed(t)
        /\ ~dbi.capture_parameters
        /\ Len(obs[t].args.pos) = 2
        /\ Len(spans[t]) = 1
        /\ spans[t][1].recording
        /\ AttrOf(spans[t][1], "db.statement.parameters") = "absent"
        /\ AttrOf(spans[t][1], "db.statement") = "S"

\* `text` is the UTF-8 reading of `bytes` with U+FFFD for each invalid byte.
IsDecodingOf(text, bytes) ==
    /\ Len(text) = Len(bytes)
    /\ \A k \in 1..Len(bytes) :
          text[k] = (IF bytes[k] = "xFF" THEN "U+FFFD" ELSE bytes[k])

\* C17: on a recording span db.statement is the first positional argument when
\* that is text, its UTF-8 decoding with replacement when it is bytes, and the
\* empty string when there is no positional argument; a bytes statement never
\* makes the call fail.
C17_StatementAttribute ==
    \A t \in AllThreads :
        (obs[t].flavor \in {"sync", "async"} /\ connection.kind = "proxy")
        => LET pos == obs[t].args.pos
           IN /\ \A i \in 1..Len(spans[t]) :
                    spans[t][i].recording
                    => LET st == AttrOf(spans[t][i], "db.statement")
                       IN IF pos = <<>> THEN st = ""
                          ELSE IF pos[1].type = "str" THEN st = Str(pos[1].text)
                          ELSE \E text \in SeqsUpTo({"S", "U+FFFD"}, Len(pos[1].text)) :
                                  IsDecodingOf(text, pos[1].text) /\ st = Str(text)
              /\ (Completed(t) /\ pos # <<>> /\ pos[1].type = "bytes")
                 => /\ Len(spans[t]) = 1
                    /\ InvokedCount(t, obs[t].fn) = 1
                    /\ result[t] = obs[t].delegated

C17_Witness ==
    \E t \in AllThreads :
        /\ Completed(t)
        /\ obs[t].args.pos = <<BytesArg(<<"S", "xFF">>)>>
        /\ Len(spans[t]) = 1
        /\ spans[t][1].recording
        /\ AttrOf(spans[t][1], "db.statement") = "SU+FFFD"
        /\ result[t] = Return("rows")

C17_WitnessNoArgs ==
    \E t \in AllThreads :
        /\ Completed(t)
        /\ obs[t].flavor = "async"
        /\ obs[t].args.pos = <<>>
        /\ Len(spans[t]) = 1
        /\ spans[t][1].recording
        /\ AttrOf(spans[t][1], "db.statement") = ""

\* t's call chain is inside the delegated call of a wrapper that started a span.
InDelegatedCall(t) ==
    \E i \in 1..Len(stack[t]) : stack[t][i].kind = "wrapper" /\ stack[t][i].active

\* The frame of t's top-level call, when that call entered through a wrapper
\* and the wrapper is past its suppression check.
TopLevelWrapper(t) ==
    /\ stack[t] # <<>>
    /\ stack[t][Len(stack[t])].kind = "wrapper"
    /\ stack[t][Len(stack[t])].phase # "enter"

\* C18: the HTTP suppression flag belongs to one call chain. It is set exactly
\* while that chain is inside the delegated call of a span-starting wrapper and
\* is back to its previous value afterwards, on return and on fault; a
\* top-level request whose caller did not ask for suppression starts its own
\* span whatever another thread's chain is doing, and so does the next
\* top-level request of the same chain.
C18_SuppressionIsPerChain ==
    \A t \in AllThreads :
        /\ ctx[t].suppress_http <=> InDelegatedCall(t)
        /\ stack[t] = <<>> => ~ctx[t].suppress_http
        /\ (TopLevelWrapper(t) /\ ~obs[t].suppressed)
           => /\ stack[t][Len(stack[t])].active
              /\ obs[t].started = 1
              /\ Len(spans[t]) = 1
              /\ spans[t][1].thread = t

\* Both threads are inside the delegated call of their own top-level request.
C18_Witness ==
    /\ \A t \in AllThreads :
          /\ TopLevelWrapper(t)
          /\ ~obs[t].suppressed
          /\ obs[t].fn = "request"
          /\ ctx[t].suppress_http
          /\ Len(spans[t]) = 1
    /\ stack[1][1].kind = "orig_send"
    /\ Len(stack[2]) = 1

\* The `with` block of span i of thread t is still open.
SpanBlockOpen(t, i) ==
    \E k \in 1..Len(stack[t]) : stack[t][k].active /\ stack[t][k].span = i

\* C19: a span started by the HTTP-client wrapper or by the sync or async DB
\* tracer is open exactly as long as its `with` block is, and ended exactly
\* once when the block is left - by a return, by a fault of the delegated call,
\* by the cancellation raised at the await of the delegated call - so that it
\* is ended when the caller has the outcome.
C19_SpanEndedOnEveryPath ==
    \A t \in AllThreads :
        /\ \A i \in 1..Len(spans[t]) :
              spans[t][i].ended = (IF SpanBlockOpen(t, i) THEN 0 ELSE 1)
        /\ Completed(t) => /\ Len(spans[t]) = obs[t].started
                           /\ \A i \in 1..Len(spans[t]) : spans[t][i].ended = 1

C19_Witness ==
    \E t \in AllThreads :
        /\ Completed(t)
        /\ obs[t].flavor = "async"
        /\ result[t] = Raise("CancelledError")
        /\ Len(spans[t]) = 1
        /\ spans[t][1].ended = 1

C19_WitnessHttp ==
    \E t \in AllThreads :
        /\ Completed(t)
        /\ obs[t].flavor = "http"
        /\ result[t] = Raise("KeyboardInterrupt")
        /\ Len(spans[t]) = 1
        /\ spans[t][1].ended = 1

StartedFor(r) == Cardinality({i \in 1..Len(r.events) : r.events[i].ev = "start"})

\* C20: with global instrumentation (the framework class replaced) and
\* per-app instrument_app used on the same app, no second layer is stacked:
\* a Flask app has at most one WSGI wrapper, one before_request hook and one
\* teardown hook, a FastAPI app at most one tracing middleware, and a traced
\* request starts exactly one span.
C20_NoDoubleLayerWhenMixed ==
    /\ app.wsgi_layers <= 1
    /\ Len(app.before_request_funcs) <= 1
    /\ app.teardown_request_funcs <= 1
    /\ (TracedRequest /\ req.pc = "done") => StartedFor(req) = 1
    /\ fastapi.app.middleware <= 1
    /\ fastapi.spans <= 1

\* C21: the name_callback given to FlaskInstrumentor().instrument() lives only
\* until uninstrument(): after uninstrument() flask.Flask is the original
\* class again, and an app created while an instrument() call without a
\* name_callback is in force names its spans by the default rule (the URL
\* rule, else "HTTP " + METHOD).
C21_ConfigLivesUntilUninstrument ==
    /\ lastOp.op = "flask_uninstrument" => ~flaskClass.patched
    /\ ( /\ lastOp.op = "create_app"
         /\ flaskClass.patched
         /\ flaskClass.given = "absent" )
       => /\ app.before_request_funcs[1].name_callback = "default"
          /\ (TracedRequest /\ req.pc = "done")
             => flaskSpans[req.environ.span].name = GetDefaultSpanName(req)

\* The half of C21 that holds: uninstrument() rebinds flask.Flask to the
\* original class, so apps created afterwards carry no instrumentation.
C21_OriginalClassRestored ==
    /\ ~flaskClass.is_instrumented => ~flaskClass.patched
    /\ (lastOp.op = "create_app" /\ ~flaskClass.is_instrumented) => app = NewApp

C21_OriginalClassRestoredWitness ==
    /\ lastOp.op = "create_app"
    /\ ~flaskClass.is_instrumented
    /\ flaskClass.name_callback = "custom"
    /\ app = NewApp

EnteredProxy == cm.target # "" /\ cm.manager.kind = "proxy"

\* A call made inside the block has come back to its caller.
BlockCallDone(t) == Completed(t) /\ obs[t].inBlock

\* C22: entering a traced connection or cursor proxy as a context manager
\* (with, or async with for the asynchronous proxies) binds the proxy itself,
\* so an execute made inside the block starts a span; leaving the block calls
\* the underlying object's exit with the same arguments.
C22_EnteringYieldsTheProxy ==
    EnteredProxy
    => /\ cm.bound = cm.manager
       /\ \A t \in threads :
             (BlockCallDone(t) /\ GetOperationName(obs[t].args.pos).kind # "raise")
             => obs[t].started = 1
       /\ ~cm.open => cm.exitForwarded = cm.exitGiven

\* The part of C22 that holds: the DB-API proxies (with) bind themselves, calls
\* inside the block are traced, and every proxy forwards the exit arguments.
C22_SyncEntryYieldsTheProxy ==
    EnteredProxy
    => /\ cm.flavor = "sync"
          => /\ cm.bound = cm.manager
             /\ \A t \in threads :
                   ( /\ BlockCallDone(t)
                     /\ GetOperationName(obs[t].args.pos).kind # "raise" )
                   => obs[t].started = 1 /\ Len(obs[t].invoked) = 1
       /\ ~cm.open => cm.exitForwarded = cm.exitGiven

C22_SyncEntryWitness ==
    /\ EnteredProxy
    /\ cm.flavor = "sync"
    /\ cm.target = "cursor"
    /\ cm.bound = cm.manager
    /\ \E t \in threads : BlockCallDone(t) /\ obs[t].started = 1

C22_ExitForwardedWitness ==
    /\ EnteredProxy
    /\ ~cm.open
    /\ cm.flavor = "async"
    /\ cm.exitGiven = "exc"
    /\ cm.exitForwarded = "exc"

\* C23: over any sequence of acquire (and release) calls on an instrumented
\* pool, every connection handed out is wrapped in exactly one tracing proxy
\* built over the pool's integration: a raw connection is wrapped, a
\* connection that is already a proxy is handed out as it is.
C23_AcquiredWrappedOnce ==
    \A i \in 1..Len(pool.held) :
        /\ ProxyDepth(pool.held[i].conn) = 1
        /\ pool.held[i].integration = pool.integration

C23_Witness ==
    /\ pool.lastAcquire = "as_is"
    /\ Len(pool.held) = 2
    /\ ProxyDepth(pool.held[2].conn) = 1
    /\ pool.held[2].integration = pool.integration

C23_WitnessWrapped ==
    /\ pool.lastAcquire = "wrapped"
    /\ pool.held # <<>>
    /\ pool.held[Len(pool.held)].conn = TracedConnectionProxy(RawConnection("testdb"))

SpanAttributeFor(key) ==
    CASE key = "user" -> "db.user"
      [] key = "host" -> "net.peer.name"
      [] key = "port" -> "net.peer.port"

\* The dotted path `names` leads nowhere from the object `v`.
RECURSIVE PathMissing(_, _)
PathMissing(v, names) ==
    /\ names # <<>>
    /\ \/ ~\E a \in v.attrs : a[1] = Head(names)
       \/ \E a \in v.attrs : a[1] = Head(names) /\ PathMissing(a[2], Tail(names))

\* The names of a configured path: what lies between the dots.
NamesOf(path) == [i \in 1..((Len(path) + 1) \div 2) |-> path[2 * i - 1]]

\* The connection objects for which the configured path of `key` is missing.
MissingIn(c, key) == PathMissing(c, NamesOf(dbi.connection_attributes[key]))

\* C24: extracting the connection attributes never raises, whatever the
\* connection object: a configured dotted path that is missing at any level
\* is skipped, the values found for the other keys are kept, and the span
\* attribute of the missing key (db.user, net.peer.name, net.peer.port) is
\* absent from the spans of later executions.
C24_ExtractionNeverRaises ==
    /\ lastOp.op # "connect_raised"
    /\ FromObject(connection)
       => \A key \in {"user", "host", "port"} :
             MissingIn(connection.wrapped[1].object, key)
             => \A t \in threads : \A i \in 1..Len(spans[t]) :
                   AttrOf(spans[t][i], SpanAttributeFor(key)) = "absent"

\* The part of C24 that holds: a missing path is skipped and costs the other
\* keys nothing (a value that is there is kept when it is truthy).
C24_MissingPathSkipped ==
    FromObject(connection)
    => LET c == connection.wrapped[1].object
       IN \A key \in {"user", "host", "port"} :
             /\ MissingIn(c, key)
                => /\ ~\E q \in dbi.connection_props : q[1] = key
                   /\ ~\E a \in dbi.span_attributes : a[1] = SpanAttributeFor(key)
                   /\ \A t \in threads : \A i \in 1..Len(spans[t]) :
                         AttrOf(spans[t][i], SpanAttributeFor(key)) = "absent"
             /\ ( /\ ~MissingIn(c, key)
                  /\ Truthy(ReduceGetAttr(c, NamesOf(dbi.connection_attributes[key]))) )
                => /\ \E q \in dbi.connection_props : q[1] = key
                   /\ \A t \in threads : \A i \in 1..Len(spans[t]) :
                         spans[t][i].recording
                         => AttrOf(spans[t][i], SpanAttributeFor(key)) # "absent"

C24_MissingPathSkippedWitness ==
    /\ FromObject(connection)
    /\ dbi.connection_attributes = InfoAttributes
    /\ MissingIn(connection.wrapped[1].object, "user")
    /\ MissingIn(connection.wrapped[1].object, "host")
    /\ dbi.database = "testdb"
    /\ \E t \in threads :
          /\ Completed(t)
          /\ Len(spans[t]) = 1
          /\ spans[t][1].recording
          /\ AttrOf(spans[t][1], "db.user") = "absent"
          /\ AttrOf(spans[t][1], "net.peer.port") = "5432"
          /\ AttrOf(spans[t][1], "db.name") = "testdb"

C24_WitnessNoInfo ==
    /\ FromObject(connection)
    /\ connection.wrapped[1].object = Obj({<<"info", PyNone>>})
    /\ dbi.connection_props = {}
    /\ dbi.span_attributes = {}
    /\ dbi.name = "postgresql"

\* A traced execute / executemany / callproc of thread t is under way.
TracedCallRunning(t) ==
    /\ stack[t] # <<>>
    /\ stack[t][Len(stack[t])].kind \in {"traced_execution", "async_traced_execution"}

\* C25: the integration context is written only by connection-producing
\* operations. A cursor() call hands the cursor the connection's integration
\* as it is, and no step of a traced execution (sync or async), on whatever
\* thread, changes any field of it: running traced calls only read it.
C25_ExecutionsOnlyReadIntegration ==
    [][ /\ stack' # stack => dbi' = dbi /\ connection' = connection
        /\ \A t \in AllThreads :
              (stack[t] = <<>> /\ TracedCallRunning(t)')
              => stack'[t][1].chain = <<dbi>>
        /\ \A t \in AllThreads :
              (TracedCallRunning(t) /\ TracedCallRunning(t)')
              => stack'[t][Len(stack'[t])].chain = stack[t][Len(stack[t])].chain
      ]_vars

C25_Witness ==
    /\ dbi.database = "testdb"
    /\ dbi.capture_parameters
    /\ \A t \in AllThreads :
          /\ TracedCallRunning(t)
          /\ stack[t][Len(stack[t])].chain = <<dbi>>
          /\ Len(spans[t]) = 1
          /\ spans[t][1].recording
          /\ AttrOf(spans[t][1], "db.name") = "testdb"

====
